---- MODULE Spec2Model ----
(***************************************************************************)
(* State-machine model of the antlir2 container isolation core and of the  *)
(* btrfs subvolume handle it rests on.                                     *)
(*                                                                         *)
(*   SpecHandle   : antlir2_btrfs::Subvolume open, create, snapshot and   *)
(*                  delete over a small btrfs namespace                    *)
(*   SpecReadonly : the same handle's read-only flag (set_readonly,        *)
(*                  read-only snapshots) against writes                    *)
(*   SpecDriver : isolate_unshare_preexec do_main (the pre-exec driver)    *)
(*   SpecMount  : the read-only input mounts (make_mount_readonly)         *)
(***************************************************************************)
EXTENDS Integers, Sequences, FiniteSets, TLC

VARIABLES
    \* ---- btrfs namespace (kernel side) ----
    dirent,         \* path -> directory object found there (NoObj if none)
    vol_flags,      \* subvolume number -> its flags word
    vol_files,      \* subvolume number -> files written into it
    nvols,          \* subvolumes created so far (the next one gets nvols + 1)
    \* ---- antlir2_btrfs::Subvolume values held by the caller ----
    handles,        \* slot -> Subvolume struct (NoHandle if the slot is free)
    last,           \* what the last call did: op, result, ioctls issued ...
    \* ---- history kept for the read-only and ioctl-count properties ----
    expect_ro,      \* subvolume number -> read-only as the calls so far say
    expect_files,   \* subvolume number -> files the successful writes put there
    ncalls          \* calls made so far

btrfsVars == <<dirent, vol_flags, vol_files, nvols, handles, last,
               expect_ro, expect_files, ncalls>>

----------------------------------------------------------------------------
(* Bounds of the model *)

MaxSubvols == 1
MaxHandles == 1
MaxFiles == 1
MaxCalls == 4

(* Program constants *)

INO_SUBVOL == 256
READ_ONLY == 2
SNAPSHOT_READONLY == 2

----------------------------------------------------------------------------
(* The namespace: paths, directory objects *)

Paths == {"/", "/foo", "/snapshot", "/dir", "/tmp", "/tmp/sub"}

NoPath == "<none>"

\* Path::parent()
Parent(p) ==
    CASE p = "/" -> NoPath
      [] p = "/tmp/sub" -> "/tmp"
      [] OTHER -> "/"

\* Path::file_name()
FileName(p) ==
    CASE p = "/" -> NoPath
      [] p = "/foo" -> "foo"
      [] p = "/snapshot" -> "snapshot"
      [] p = "/dir" -> "dir"
      [] p = "/tmp" -> "tmp"
      [] OTHER -> "sub"

Vol(k) == [kind |-> "vol", n |-> k]
PlainDir(k) == [kind |-> "dir", n |-> k]
NoObj == [kind |-> "none", n |-> 0]

VolNums == 0 .. MaxSubvols
Files == 1 .. MaxFiles

\* statfs(2).f_type of the filesystem an object lives on: /tmp and below is
\* not btrfs
ObjFsType(o) ==
    IF o.kind = "dir" /\ o.n >= 2 THEN "other" ELSE "btrfs"

\* stat(2).st_ino of a directory object: a subvolume root is inode 256;
\* a directory of another filesystem may carry any number, 256 included
ObjIno(o) ==
    CASE o.kind = "vol" -> INO_SUBVOL
      [] o.kind = "dir" /\ o.n = 1 -> INO_SUBVOL + 1
      [] o.kind = "dir" /\ o.n = 2 -> INO_SUBVOL
      [] OTHER -> INO_SUBVOL + 44

\* bit operations on the flags word (u64; only the two low bits occur)
HasBit(x, b) == (x \div b) % 2 = 1
BitOr(x, b) == IF HasBit(x, b) THEN x ELSE x + b
BitAndNot(x, b) == IF HasBit(x, b) THEN x - b ELSE x

NoHandle == [fd |-> NoObj, parent |-> NoPath, id |-> 0 - 1, opened_path |-> NoPath]

Slots == 1 .. MaxHandles
FreeSlots == {s \in Slots : handles[s] = NoHandle}
LiveSlots == Slots \ FreeSlots
FirstFree == CHOOSE s \in FreeSlots : \A t \in FreeSlots : s <= t

\* where the caller keeps a Subvolume it is given: the first free slot; with
\* none free the value is dropped at once (0)
KeepSlot(result) == IF result = "Ok" /\ FreeSlots # {} THEN FirstFree ELSE 0

----------------------------------------------------------------------------
(* Results and the ioctl log of one call *)

Call(name, how, val, ret) == [name |-> name, how |-> how, val |-> val, ret |-> ret]

Outcome(result, ioctls, handle) ==
    [result |-> result, ioctls |-> ioctls, handle |-> handle]

\* the system calls of one operation that the environment may fail
Faults == {"none", "open_parent", "open", "fstatfs", "fstat", "ino_lookup",
           "canonicalize", "ioctl"}

\* those that tell the outcomes of open apart, and of create and snapshot
OpenFaults == {"none", "open", "fstatfs", "fstat", "ino_lookup"}
CreateFaults == {"none", "fstatfs", "ioctl", "open", "ino_lookup"}

\* where a subvolume may be asked for
Targets == {"/", "/foo", "/snapshot", "/tmp/sub"}

\* ensure_is_btrfs: fstatfs, then the filesystem magic
EnsureIsBtrfs(o, fault) ==
    IF fault = "fstatfs" THEN "Io"
    ELSE IF ObjFsType(o) # "btrfs" THEN "NotBtrfs"
    ELSE "Ok"

\* the inode number tested before the filesystem type
OpenChecks_InoFirst(o, fault) ==
    IF fault = "fstat" THEN "Io"
    ELSE IF ObjIno(o) # INO_SUBVOL THEN "NotSubvol"
    ELSE EnsureIsBtrfs(o, fault)

\* the two checks of open on the opened descriptor, in the code's order
OpenChecks(o, fault) ==
    IF EnsureIsBtrfs(o, fault) # "Ok" THEN EnsureIsBtrfs(o, fault)
    ELSE IF fault = "fstat" THEN "Io"
    ELSE IF ObjIno(o) # INO_SUBVOL THEN "NotSubvol"
    ELSE "Ok"

\* Subvolume::open
OpenOutcome(p, fault, ents) ==
    LET par == Parent(p)
        o == ents[p]
        lookup == Call("ino_lookup", "-", 0, IF fault = "ino_lookup" THEN "EIO" ELSE "OK")
    IN  IF par # NoPath /\ (ents[par] = NoObj \/ fault = "open_parent")
            THEN Outcome("Io", <<>>, NoHandle)
        ELSE IF o = NoObj \/ fault = "open"
            THEN Outcome("Io", <<>>, NoHandle)
        ELSE IF OpenChecks(o, fault) # "Ok"
            THEN Outcome(OpenChecks(o, fault), <<>>, NoHandle)
        ELSE IF fault = "ino_lookup"
            THEN Outcome("Io", <<lookup>>, NoHandle)
        ELSE IF fault = "canonicalize"
            THEN Outcome("Io", <<lookup>>, NoHandle)
        ELSE Outcome("Ok", <<lookup>>,
                     [fd |-> o, parent |-> par, id |-> o.n, opened_path |-> p])

\* one more call
Tick == ncalls < MaxCalls /\ ncalls' = ncalls + 1

\* the caller keeps the returned Subvolume in a free slot
Keep(out) ==
    IF KeepSlot(out.result) # 0
        THEN [handles EXCEPT ![FirstFree] = out.handle]
        ELSE handles

\* the record of one call: what was asked, the Subvolume given to it (if it
\* works on one), the result, the Subvolume in the result, the ioctls issued;
\* `before` holds the ioctls of the call before it when that call was
\* set_readonly(true) and this one is set_readonly(false) on the same Subvolume
Record(op, p, slot, ro, out) ==
    [op |-> op, path |-> p, slot |-> slot, ro |-> ro,
     given |-> IF slot \in LiveSlots THEN handles[slot] ELSE NoHandle,
     result |-> out.result, returned |-> out.handle, ioctls |-> out.ioctls,
     fault |-> "none",
     before |-> IF /\ op = "set_readonly" /\ ~ro
                   /\ last.op = "set_readonly" /\ last.ro /\ last.slot = slot
                    THEN last.ioctls ELSE <<>>]

Open(p, fault) ==
    /\ Tick
    /\ LET out == OpenOutcome(p, fault, dirent)
       IN  /\ handles' = Keep(out)
           /\ last' = [Record("open", p, KeepSlot(out.result), FALSE, out)
                           EXCEPT !.fault = fault]
    /\ UNCHANGED <<dirent, vol_flags, vol_files, nvols, expect_ro, expect_files>>

\* a call that returns before it reaches the kernel's namespace
Rejected(op, p, slot, result, ioctls) ==
    /\ last' = Record(op, p, slot, FALSE, Outcome(result, ioctls, NoHandle))
    /\ UNCHANGED <<dirent, vol_flags, vol_files, nvols, handles,
                   expect_ro, expect_files>>

\* the subvolume a new entry of the btrfs root directory would live in
RootIsReadOnly == HasBit(vol_flags[0], READ_ONLY)

\* errno of a create ioctl the kernel refuses ("OK" if it does not)
CreateErrno(p, fault) ==
    IF fault = "ioctl" THEN "EIO"
    ELSE IF dirent[p] # NoObj THEN "EEXIST"
    ELSE IF RootIsReadOnly THEN "EROFS"
    ELSE "OK"

\* Subvolume::create: subvol_create_v2 against the parent, then open
Create(p, fault) ==
    /\ Tick
    /\ nvols < MaxSubvols
    /\ LET par == Parent(p)
           ioc == Call("subvol_create_v2", FileName(p), 0, CreateErrno(p, fault))
           ents == [dirent EXCEPT ![p] = Vol(nvols + 1)]
           out == OpenOutcome(p, fault, ents)
       IN  IF par = NoPath
               THEN Rejected("create", p, 0, "CannotCreateRoot", <<>>)
           ELSE IF dirent[par] = NoObj \/ fault = "open_parent"
               THEN Rejected("create", p, 0, "Io", <<>>)
           ELSE IF EnsureIsBtrfs(dirent[par], fault) # "Ok"
               THEN Rejected("create", p, 0, EnsureIsBtrfs(dirent[par], fault), <<>>)
           ELSE IF ioc.ret # "OK"
               THEN Rejected("create", p, 0, "Io", <<ioc>>)
           ELSE /\ dirent' = ents
                /\ nvols' = nvols + 1
                /\ vol_flags' = [vol_flags EXCEPT ![nvols + 1] = 0]
                /\ vol_files' = [vol_files EXCEPT ![nvols + 1] = {}]
                /\ expect_ro' = [expect_ro EXCEPT ![nvols + 1] = FALSE]
                /\ expect_files' = [expect_files EXCEPT ![nvols + 1] = {}]
                /\ handles' = Keep(out)
                /\ last' = Record("create", p,
                                  KeepSlot(out.result), FALSE,
                                  Outcome(out.result, <<ioc>> \o out.ioctls, out.handle))

SnapshotFlagSet == {"empty", "READONLY"}

\* SnapshotFlags::bits()
SnapshotBits(flags) == IF flags = "READONLY" THEN SNAPSHOT_READONLY ELSE 0

\* Subvolume::snapshot: snap_create_v2 {fd: self.fd, flags} against the new
\* parent, then open
Snapshot(s, p, flags, fault) ==
    /\ s \in LiveSlots
    /\ Tick
    /\ nvols < MaxSubvols
    /\ LET par == Parent(p)
           src == handles[s].fd.n
           bits == SnapshotBits(flags)
           ioc == Call("snap_create_v2", FileName(p), bits, CreateErrno(p, fault))
           ents == [dirent EXCEPT ![p] = Vol(nvols + 1)]
           out == OpenOutcome(p, fault, ents)
       IN  IF par = NoPath
               THEN Rejected("snapshot", p, 0, "CannotCreateRoot", <<>>)
           ELSE IF dirent[par] = NoObj \/ fault = "open_parent"
               THEN Rejected("snapshot", p, 0, "Io", <<>>)
           ELSE IF EnsureIsBtrfs(dirent[par], fault) # "Ok"
               THEN Rejected("snapshot", p, 0, EnsureIsBtrfs(dirent[par], fault), <<>>)
           ELSE IF ioc.ret # "OK"
               THEN Rejected("snapshot", p, 0, "Io", <<ioc>>)
           ELSE /\ dirent' = ents
                /\ nvols' = nvols + 1
                \* the kernel: the snapshot is read-only iff asked to be, and
                \* holds what the source holds now
                /\ vol_flags' = [vol_flags EXCEPT ![nvols + 1] =
                                    IF HasBit(bits, READ_ONLY) THEN READ_ONLY ELSE 0]
                /\ vol_files' = [vol_files EXCEPT ![nvols + 1] = vol_files[src]]
                /\ expect_ro' = [expect_ro EXCEPT ![nvols + 1] = (flags = "READONLY")]
                /\ expect_files' = [expect_files EXCEPT ![nvols + 1] = expect_files[src]]
                /\ handles' = Keep(out)
                /\ last' = Record("snapshot", p,
                                  KeepSlot(out.result), FALSE,
                                  Outcome(out.result, <<ioc>> \o out.ioctls, out.handle))

----------------------------------------------------------------------------
(* set_readonly *)

\* the writable arm leaves the word as it was fetched
SetReadonlyFlags_KeepOnClear(ro, original_flags) ==
    IF ro THEN BitOr(original_flags, READ_ONLY) ELSE original_flags

\* the word written is the wanted bit alone
SetReadonlyFlags_Overwrite(ro, original_flags) == IF ro THEN READ_ONLY ELSE 0

\* the flags word set_readonly wants, from the one it fetched
SetReadonlyFlags(ro, original_flags) ==
    IF ro THEN BitOr(original_flags, READ_ONLY)
    ELSE BitAndNot(original_flags, READ_ONLY)

\* the set-flags ioctl issued whatever the fetched word
NeedsSetFlags_Always(flags, original_flags) == TRUE

\* `if flags != original_flags`
NeedsSetFlags(flags, original_flags) == flags # original_flags

SetFaults == {"none", "get_flags", "set_flags"}

SetReadonlyOutcome(s, ro, fault) ==
    LET v == handles[s].fd.n
        original_flags == vol_flags[v]
        flags == SetReadonlyFlags(ro, original_flags)
        get == Call("get_flags", "-", original_flags,
                    IF fault = "get_flags" THEN "EIO" ELSE "OK")
        set == Call("set_flags", "-", flags,
                    IF fault = "set_flags" THEN "EIO" ELSE "OK")
    IN  IF get.ret # "OK" THEN Outcome("Io", <<get>>, handles[s])
        ELSE IF ~NeedsSetFlags(flags, original_flags)
            THEN Outcome("Ok", <<get>>, handles[s])
        ELSE IF set.ret # "OK" THEN Outcome("Io", <<get, set>>, handles[s])
        ELSE Outcome("Ok", <<get, set>>, handles[s])

\* the set_flags ioctls of a log that the kernel carried out
SetsDone(ioctls) ==
    {i \in 1 .. Len(ioctls) : ioctls[i].name = "set_flags" /\ ioctls[i].ret = "OK"}

SetsIssued(ioctls) ==
    Cardinality({i \in 1 .. Len(ioctls) : ioctls[i].name = "set_flags"})

\* Subvolume::set_readonly
SetReadonly(s, ro, fault) ==
    /\ s \in LiveSlots
    /\ Tick
    /\ LET v == handles[s].fd.n
           out == SetReadonlyOutcome(s, ro, fault)
       IN  /\ vol_flags' =
                 IF SetsDone(out.ioctls) # {}
                     THEN [vol_flags EXCEPT ![v] = out.ioctls[Len(out.ioctls)].val]
                     ELSE vol_flags
           /\ expect_ro' = IF out.result = "Ok"
                               THEN [expect_ro EXCEPT ![v] = ro]
                               ELSE expect_ro
           /\ last' = Record("set_readonly", handles[s].opened_path, s, ro, out)
    /\ UNCHANGED <<dirent, vol_files, nvols, handles, expect_files>>

\* std::fs::write of file f into the subvolume found at p; the kernel refuses
\* it with EROFS iff the subvolume's read-only bit is set
Write(p, f) ==
    /\ Tick
    /\ dirent[p].kind = "vol"
    /\ LET v == dirent[p].n
           refused == HasBit(vol_flags[v], READ_ONLY)
       IN  /\ vol_files' = IF refused THEN vol_files
                           ELSE [vol_files EXCEPT ![v] = @ \cup {f}]
           \* by the calls so far the write is due to fail iff expect_ro
           /\ expect_files' = IF expect_ro[v] THEN expect_files
                              ELSE [expect_files EXCEPT ![v] = @ \cup {f}]
           /\ last' = Record("write", p, 0, FALSE,
                             Outcome(IF refused THEN "ReadOnlyFilesystem" ELSE "Ok",
                                     <<>>, NoHandle))
    /\ UNCHANGED <<dirent, vol_flags, nvols, handles, expect_ro>>

\* a Subvolume goes out of scope: its descriptors are closed
Drop(s) ==
    /\ s \in LiveSlots
    /\ Tick
    /\ handles' = [handles EXCEPT ![s] = NoHandle]
    /\ last' = Record("drop", handles[s].opened_path, s, FALSE,
                      Outcome("Ok", <<>>, NoHandle))
    /\ UNCHANGED <<dirent, vol_flags, vol_files, nvols, expect_ro, expect_files>>

----------------------------------------------------------------------------
(* delete *)

Errnos == {"OK", "EOPNOTSUPP", "ENOSYS", "EBUSY", "EPERM", "ENOENT"}

\* the v1 ioctl tried after any failure of the v2 ioctl
DeleteRetriesV1_AnyError(errno) == errno # "OK"

\* `Errno::EOPNOTSUPP | Errno::ENOSYS =>`
DeleteRetriesV1(errno) == errno \in {"EOPNOTSUPP", "ENOSYS"}

\* the error arm drops the Subvolume instead of handing it back
DeleteFailed_Consumed(h, result, ioctls) == Outcome(result, ioctls, NoHandle)

\* `Err((self, e))`
DeleteFailed(h, result, ioctls) == Outcome(result, ioctls, h)

\* Subvolume::delete, given the errno of each ioctl it may issue
DeleteOutcome(h, e2, e1) ==
    LET v2 == Call("snap_destroy_v2", "SPEC_BY_ID", h.id, e2)
        v1 == Call("snap_destroy", FileName(h.opened_path), 0, e1)
    IN  IF h.parent = NoPath THEN DeleteFailed(h, "CannotDeleteRoot", <<>>)
        ELSE IF e2 = "OK" THEN Outcome("Ok", <<v2>>, NoHandle)
        ELSE IF DeleteRetriesV1(e2)
            THEN IF e1 = "OK" THEN Outcome("Ok", <<v2, v1>>, NoHandle)
                 ELSE DeleteFailed(h, "Io", <<v2, v1>>)
        ELSE DeleteFailed(h, "Io", <<v2>>)

\* the kernel: the entries a carried-out snap-destroy removes. v2 finds the
\* subvolume by id under the parent, v1 by name in the parent
Destroyed(h, ioctls) ==
    {p \in Paths :
        \E i \in 1 .. Len(ioctls) :
            /\ ioctls[i].ret = "OK"
            /\ Parent(p) = h.parent
            /\ dirent[p].kind = "vol"
            /\ \/ ioctls[i].name = "snap_destroy_v2" /\ dirent[p].n = ioctls[i].val
               \/ ioctls[i].name = "snap_destroy" /\ FileName(p) = ioctls[i].how}

Delete(s, e2, e1) ==
    /\ s \in LiveSlots
    /\ Tick
    /\ LET h == handles[s]
           out == DeleteOutcome(h, e2, e1)
       IN  \* an ioctl answers OK only if it found something to destroy
           /\ \A i \in 1 .. Len(out.ioctls) :
                  out.ioctls[i].ret = "OK" =>
                      Destroyed(h, <<out.ioctls[i]>>) # {}
           \* errnos of ioctls that are not issued do not matter
           /\ Len(out.ioctls) < 2 => e1 = "OK"
           /\ Len(out.ioctls) < 1 => e2 = "OK"
           /\ dirent' = [p \in Paths |->
                            IF p \in Destroyed(h, out.ioctls) THEN NoObj ELSE dirent[p]]
           /\ handles' = [handles EXCEPT ![s] = out.handle]
           /\ last' = Record("delete", h.opened_path, s, FALSE, out)
    /\ UNCHANGED <<vol_flags, vol_files, nvols, expect_ro, expect_files>>

----------------------------------------------------------------------------
(* The subvolume handle on its own *)

BtrfsAt(b) ==
    /\ dirent = [p \in Paths |->
                    CASE p = "/" -> Vol(0)
                      [] p = "/dir" -> PlainDir(1)
                      [] p = "/tmp" -> PlainDir(2)
                      [] p = "/tmp/sub" -> PlainDir(3)
                      [] OTHER -> NoObj]
    /\ vol_flags = [v \in VolNums |-> IF v = 0 THEN b ELSE 0]
    /\ vol_files = [v \in VolNums |-> {}]
    /\ nvols = 0
    /\ ncalls = 0
    /\ handles = [s \in Slots |-> NoHandle]
    /\ last = [op |-> "init", path |-> NoPath, slot |-> 0, ro |-> FALSE,
               given |-> NoHandle, result |-> "Ok", returned |-> NoHandle,
               ioctls |-> <<>>, fault |-> "none", before |-> <<>>]
    /\ expect_ro = [v \in VolNums |-> FALSE]
    /\ expect_files = [v \in VolNums |-> {}]

\* the namespace at the start: the root subvolume's flags word may carry a
\* bit other than READ_ONLY
InitBtrfs == \E b \in {0, 1} : BtrfsAt(b)

----------------------------------------------------------------------------
(* The pre-exec driver: isolate_unshare_preexec, do_main *)

VARIABLES
    pc,             \* pid -> where that driver process is in do_main
    ctx,            \* pid -> its IsolationContext (layer, ephemeral)
    snapshot_dir,   \* pid -> Option<PathBuf> of do_main
    pid1_args,      \* pid -> what the pid-1 supervisor was spawned with
    pid1_status,    \* pid -> how the supervisor ended
    status,         \* pid -> the ExitStatus wait() gave the driver
    exit,           \* pid -> how the driver process ended
    disk,           \* snapshot directories that exist
    written,        \* <<directory, file>>: files the isolated programs wrote
    cleanup,        \* pid -> the removal steps the driver tried, in order
    made            \* pid -> snapshot directories this driver's ioctl created

driverVars == <<pc, ctx, snapshot_dir, pid1_args, pid1_status, status, exit,
                disk, written, cleanup, made>>

Pids == {41, 42}

\* a path: `base` in `parent`, or with eph = pid the entry
\* `.<base>.ephemeral.<pid>` in `parent`
Dir(parent, base, eph) == [parent |-> parent, base |-> base, eph |-> eph]
RootDir == Dir("", "", 0)
NoDir == Dir("<none>", "", 0)
Img == Dir("/layers", "img", 0)
ImgLink == Dir("/nested/dir/for/symlink", "isolated_symlink", 0)
Layers == {RootDir, Img, ImgLink}

\* Path::canonicalize: the symlink resolves to the image
Canonicalize(p) == IF p = ImgLink THEN Img ELSE p

\* a snapshot path that does not tell the drivers apart
SnapPath_NoPid(layer_path, pid) == Dir(layer_path.parent, layer_path.base, 1)

\* layer_parent.join(format!(".{}.ephemeral.{}", layer_name, process::id()))
SnapPath(layer_path, pid) == Dir(layer_path.parent, layer_path.base, pid)

EphemeralModes == {"None", "Tmpfs", "Btrfs"}
ProgramFiles == {"ephemeral_test_file"}

Exited(c) == [kind |-> "exited", code |-> c]
Signaled(n) == [kind |-> "signaled", code |-> n]
NoStatus == [kind |-> "none", code |-> 0]
Statuses == {Exited(0), Exited(1), Exited(42), Signaled(9)}

\* how a driver process ended: main returned after Ok(()), do_main called
\* process::exit(code), or main exited 1 on an Err from `site`
Running == [how |-> "running", code |-> 0, site |-> "-"]
Ended(how, c, site) == [how |-> how, code |-> c, site |-> site]

NoArgs == [layer |-> NoDir, ephemeral |-> "None", snapshot_dir |-> NoDir, spawned |-> FALSE]

Step(name, ok) == [step |-> name, ok |-> ok]

\* do_main returns Err: main prints it and exits 1
Fail(d, site) ==
    /\ pc' = [pc EXCEPT ![d] = "exited"]
    /\ exit' = [exit EXCEPT ![d] = Ended("err", 1, site)]

\* unshare(CLONE_NEWPID)
Unshare(d, ok) ==
    /\ pc[d] = "start"
    /\ IF ok THEN pc' = [pc EXCEPT ![d] = "unshared"] /\ UNCHANGED exit
       ELSE Fail(d, "unshare")
    /\ UNCHANGED <<ctx, snapshot_dir, pid1_args, pid1_status, status, disk,
                   written, cleanup, made>>

\* the context with the original layer left in it
EphemeralCtx_KeepLayer(c, snap_path) == [layer |-> c.layer, ephemeral |-> "None"]

\* ctx.layer = snap_path; ctx.ephemeral = None
EphemeralCtx(c, snap_path) == [layer |-> snap_path, ephemeral |-> "None"]

PrepareFaults == {"none", "canonicalize", "open", "snap_create", "snap_open"}

\* `if ctx.ephemeral == Some(Ephemeral::Btrfs) { ... }`: snapshot the layer
\* beside itself and make the snapshot the layer
Prepare(d, fault) ==
    /\ pc[d] = "unshared"
    /\ LET layer_path == Canonicalize(ctx[d].layer)
           snap_path == SnapPath(layer_path, d)
       IN  IF ctx[d].ephemeral # "Btrfs"
               THEN /\ fault = "none"
                    /\ pc' = [pc EXCEPT ![d] = "prepared"]
                    /\ UNCHANGED <<ctx, snapshot_dir, exit, disk, written, made>>
           ELSE IF fault = "canonicalize"
               THEN /\ Fail(d, "canonicalize")
                    /\ UNCHANGED <<ctx, snapshot_dir, disk, written, made>>
           ELSE IF layer_path = RootDir
               THEN /\ Fail(d, "parent")
                    /\ UNCHANGED <<ctx, snapshot_dir, disk, written, made>>
           ELSE IF fault = "open"
               THEN /\ Fail(d, "open")
                    /\ UNCHANGED <<ctx, snapshot_dir, disk, written, made>>
           ELSE IF fault = "snap_create" \/ snap_path \in disk
               \* Subvolume::snapshot: the ioctl fails, nothing is made
               THEN /\ Fail(d, "snapshot")
                    /\ UNCHANGED <<ctx, snapshot_dir, disk, written, made>>
           ELSE /\ disk' = disk \cup {snap_path}
                /\ made' = [made EXCEPT ![d] = @ \cup {snap_path}]
                /\ written' = written \cup
                       {<<snap_path, w[2]>> : w \in {x \in written : x[1] = layer_path}}
                /\ IF fault = "snap_open"
                       \* Subvolume::snapshot: the ioctl made the snapshot and
                       \* the Self::open after it fails
                       THEN /\ Fail(d, "snapshot")
                            /\ UNCHANGED <<ctx, snapshot_dir>>
                       ELSE /\ snapshot_dir' = [snapshot_dir EXCEPT ![d] = snap_path]
                            /\ ctx' = [ctx EXCEPT ![d] = EphemeralCtx(@, snap_path)]
                            /\ pc' = [pc EXCEPT ![d] = "prepared"]
                            /\ UNCHANGED exit
    /\ UNCHANGED <<pid1_args, pid1_status, status, cleanup>>

SpawnFaults == {"none", "current_exe", "serialize", "spawn"}

\* Command::new(current_exe).arg("pid1").arg(json(ctx))
\*     [--snapshot-dir snap] ... .spawn()
Spawn(d, fault) ==
    /\ pc[d] = "prepared"
    /\ IF fault # "none"
           THEN Fail(d, fault) /\ UNCHANGED pid1_args
           ELSE /\ pid1_args' = [pid1_args EXCEPT ![d] =
                                    [layer |-> ctx[d].layer,
                                     ephemeral |-> ctx[d].ephemeral,
                                     snapshot_dir |-> snapshot_dir[d],
                                     spawned |-> TRUE]]
                /\ pc' = [pc EXCEPT ![d] = "spawned"]
                /\ UNCHANGED exit
    /\ UNCHANGED <<ctx, snapshot_dir, pid1_status, status, disk, written,
                   cleanup, made>>

\* the supervisor's container: with ephemeral = None its root is the layer
\* it was given, itself; the isolated program writes a file into its root,
\* which lands in that directory when the directory is writable (a tmpfs
\* upper takes the writes of the other modes)
Pid1Write(d, f) ==
    /\ pc[d] = "spawned"
    /\ pid1_args[d].ephemeral = "None"
    /\ pid1_args[d].layer \in disk \cup Layers
    /\ written' = written \cup {<<pid1_args[d].layer, f>>}
    /\ UNCHANGED <<pc, ctx, snapshot_dir, pid1_args, pid1_status, status, exit,
                   disk, cleanup, made>>

\* the supervisor ends; if it was given --snapshot-dir it has tried to delete
\* the snapshot (`deleted`: with success)
Pid1Exit(d, st, deleted) ==
    /\ pc[d] = "spawned"
    /\ pid1_status' = [pid1_status EXCEPT ![d] = st]
    /\ pc' = [pc EXCEPT ![d] = "pid1_exited"]
    /\ IF deleted
           THEN /\ pid1_args[d].snapshot_dir \in disk
                /\ disk' = disk \ {pid1_args[d].snapshot_dir}
                /\ written' = {w \in written : w[1] # pid1_args[d].snapshot_dir}
           ELSE UNCHANGED <<disk, written>>
    /\ UNCHANGED <<ctx, snapshot_dir, pid1_args, status, exit, cleanup, made>>

\* where do_main goes once wait() has returned, with the cleanup skipped
\* after a supervisor that failed
PcAfterWait_ExitEarly(st) == IF st = Exited(0) THEN "cleanup" ELSE "finish"

\* where do_main goes once wait() has returned: the cleanup, whatever the
\* status
PcAfterWait(st) == "cleanup"

\* a wait that returns while the supervisor still runs
Wait_NoBlock(d, ok) ==
    /\ pc[d] = "spawned"
    /\ IF ok
           THEN /\ status' = [status EXCEPT ![d] = Exited(0)]
                /\ pc' = [pc EXCEPT ![d] = "cleanup"]
                /\ UNCHANGED exit
           ELSE Fail(d, "wait") /\ UNCHANGED status
    /\ UNCHANGED <<ctx, snapshot_dir, pid1_args, pid1_status, disk, written,
                   cleanup, made>>

\* pid1.wait()
Wait(d, ok) ==
    /\ pc[d] = "pid1_exited"
    /\ IF ok
           THEN /\ status' = [status EXCEPT ![d] = pid1_status[d]]
                /\ pc' = [pc EXCEPT ![d] = PcAfterWait(pid1_status[d])]
                /\ UNCHANGED exit
           ELSE Fail(d, "wait") /\ UNCHANGED status
    /\ UNCHANGED <<ctx, snapshot_dir, pid1_args, pid1_status, disk, written,
                   cleanup, made>>

\* a cleanup that always ends with the recursive removal
CleanupSteps_AlwaysRemove(snap, exists, open_ok, delete_ok, remove_ok) ==
    IF snap = NoDir \/ ~exists THEN <<>>
    ELSE IF open_ok
        THEN <<Step("open", TRUE), Step("delete", delete_ok),
               Step("remove_dir_all", remove_ok)>>
    ELSE <<Step("open", FALSE), Step("remove_dir_all", remove_ok)>>

\* the steps of the fallback cleanup, given how each call it makes turns out
CleanupSteps(snap, exists, open_ok, delete_ok, remove_ok) ==
    IF snap = NoDir \/ ~exists THEN <<>>
    ELSE IF open_ok
        THEN IF delete_ok
                 THEN <<Step("open", TRUE), Step("delete", TRUE)>>
                 ELSE <<Step("open", TRUE), Step("delete", FALSE),
                        Step("remove_dir_all", remove_ok)>>
    ELSE <<Step("open", FALSE), Step("remove_dir_all", remove_ok)>>

\* some step removed the snapshot
Removed(steps) ==
    \E i \in 1 .. Len(steps) :
        steps[i].ok /\ steps[i].step \in {"delete", "remove_dir_all"}

\* `if let Some(snap) = &snapshot_dir { if snap.exists() { ... } }`
Cleanup(d, open_ok, delete_ok, remove_ok) ==
    /\ pc[d] = "cleanup"
    /\ LET snap == snapshot_dir[d]
           steps == CleanupSteps(snap, snap \in disk, open_ok, delete_ok, remove_ok)
       IN  \* the outcome of a call that is not made does not matter
           /\ (\A i \in 1 .. Len(steps) : steps[i].step # "remove_dir_all") => remove_ok
           /\ (\A i \in 1 .. Len(steps) : steps[i].step # "delete") => delete_ok
           /\ steps = <<>> => open_ok
           /\ cleanup' = [cleanup EXCEPT ![d] = steps]
           /\ disk' = IF Removed(steps) THEN disk \ {snap} ELSE disk
           /\ written' = IF Removed(steps) THEN {w \in written : w[1] # snap}
                         ELSE written
    /\ pc' = [pc EXCEPT ![d] = "finish"]
    /\ UNCHANGED <<ctx, snapshot_dir, pid1_args, pid1_status, status, exit, made>>

\* any failure of the supervisor reported as exit code 1
DriverExit_NoCode(st) ==
    IF st = Exited(0) THEN Ended("return_ok", 0, "-") ELSE Ended("err", 1, "pid1")

\* `if status.success() { Ok(()) } else if let Some(code) = status.code()
\* { exit(code) } else { Err(..) }`
DriverExit(st) ==
    IF st = Exited(0) THEN Ended("return_ok", 0, "-")
    ELSE IF st.kind = "exited" THEN Ended("exit", st.code, "-")
    ELSE Ended("err", 1, "pid1")

Finish(d) ==
    /\ pc[d] = "finish"
    /\ exit' = [exit EXCEPT ![d] = DriverExit(status[d])]
    /\ pc' = [pc EXCEPT ![d] = "exited"]
    /\ UNCHANGED <<ctx, snapshot_dir, pid1_args, pid1_status, status, disk,
                   written, cleanup, made>>

\* the drivers in `active` are started, each with a context of its own
DriversAt(active) ==
    /\ pc = [d \in Pids |-> IF d \in active THEN "start" ELSE "idle"]
    /\ ctx \in [Pids -> [layer : Layers, ephemeral : EphemeralModes]]
    /\ \A d \in Pids \ active : ctx[d] = [layer |-> Img, ephemeral |-> "None"]
    /\ snapshot_dir = [d \in Pids |-> NoDir]
    /\ pid1_args = [d \in Pids |-> NoArgs]
    /\ pid1_status = [d \in Pids |-> NoStatus]
    /\ status = [d \in Pids |-> NoStatus]
    /\ exit = [d \in Pids |-> Running]
    /\ disk = {}
    /\ written = {}
    /\ cleanup = [d \in Pids |-> <<>>]
    /\ made = [d \in Pids |-> {}]

----------------------------------------------------------------------------
(* The read-only input mounts of the container's mount tree *)

VARIABLES
    host_mounts,    \* entry -> bind mounts nested inside its source, by
                    \* their place below the source
    mnt,            \* container path -> the mount attached there (NoMount if none)
    mstep,          \* entry -> how far the build is with it
    mphase,         \* "staging", then "pivoted" (the container runs) or "failed"
    mwrite          \* the last write attempted from inside the container

mountVars == <<host_mounts, mnt, mstep, mphase, mwrite>>

\* the depth of bind mounts nested inside a source
MaxNest == 2

ReadonlyEntries == {"platform", "inputs"}
Entries == ReadonlyEntries \cup {"outputs"}

\* places below a source: <<"sub">>, <<"sub", "sub">> ...
Below == {[i \in 1 .. n |-> "sub"] : n \in 1 .. MaxNest}
\* container paths: the root, each entry's destination and the places below
MntPaths == {<<>>} \cup {<<e>> \o b : e \in Entries, b \in Below \cup {<<>>}}

IsPrefix(a, b) == Len(a) <= Len(b) /\ SubSeq(b, 1, Len(a)) = a

NoMount == [present |-> FALSE, ro |-> FALSE]
Mount(ro) == [present |-> TRUE, ro |-> ro]

\* the mount a path resolves to: the deepest one attached at or above it
Covering(m, p) ==
    CHOOSE q \in MntPaths :
        /\ m[q].present /\ IsPrefix(q, p)
        /\ \A r \in MntPaths : m[r].present /\ IsPrefix(r, p) => Len(r) <= Len(q)

\* mount(src, dst, MS_BIND [| MS_REC]): the source's mount, and with MS_REC
\* the mounts nested inside it, appear at dst, writable
BindMount(e, rec) ==
    /\ mphase = "staging"
    /\ mstep[e] = "todo"
    /\ e = "outputs" => \A r \in ReadonlyEntries : mstep[r] = "done"
    /\ mnt' = [p \in MntPaths |->
                  IF p = <<e>> THEN Mount(FALSE)
                  ELSE IF rec /\ \E b \in host_mounts[e] : p = <<e>> \o b
                      THEN Mount(FALSE)
                  ELSE mnt[p]]
    /\ mstep' = [mstep EXCEPT ![e] = IF e \in ReadonlyEntries THEN "bound" ELSE "done"]
    /\ UNCHANGED <<host_mounts, mphase, mwrite>>

\* the flags with AT_RECURSIVE left out
MakeMountReadonlyFlags_TopOnly == {"AT_SYMLINK_NOFOLLOW"}

\* (AT_SYMLINK_NOFOLLOW | AT_RECURSIVE) as u32
MakeMountReadonlyFlags == {"AT_SYMLINK_NOFOLLOW", "AT_RECURSIVE"}

\* mount_attr { attr_set: MOUNT_ATTR_RDONLY, attr_clr: 0, .. }
MakeMountReadonlyAttr == [attr_set |-> {"MOUNT_ATTR_RDONLY"}, attr_clr |-> {}]

\* the kernel's mount_setattr(2): the attributes change on the mount at
\* `path`, and with AT_RECURSIVE on every mount of the subtree below it
MountSetattr(m, path, flags, attr) ==
    [p \in MntPaths |->
        IF m[p].present /\ (p = path \/ ("AT_RECURSIVE" \in flags /\ IsPrefix(path, p)))
            THEN Mount(IF "MOUNT_ATTR_RDONLY" \in attr.attr_set THEN TRUE
                       ELSE IF "MOUNT_ATTR_RDONLY" \in attr.attr_clr THEN FALSE
                       ELSE m[p].ro)
            ELSE m[p]]

\* make_mount_readonly(dst); an error ends the build
MakeMountReadonly(e, ok) ==
    /\ mphase = "staging"
    /\ mstep[e] = "bound"
    /\ IF ok
           THEN /\ mnt' = MountSetattr(mnt, <<e>>, MakeMountReadonlyFlags,
                                       MakeMountReadonlyAttr)
                /\ mstep' = [mstep EXCEPT ![e] = "done"]
                /\ UNCHANGED mphase
           ELSE /\ mphase' = "failed"
                /\ UNCHANGED <<mnt, mstep>>
    /\ UNCHANGED <<host_mounts, mwrite>>

\* pivot_root into the staging directory: the mount tree is built
PivotRoot ==
    /\ mphase = "staging"
    /\ \A e \in Entries : mstep[e] = "done"
    /\ mphase' = "pivoted"
    /\ UNCHANGED <<host_mounts, mnt, mstep, mwrite>>

NoWrite == [path |-> <<>>, result |-> "-"]

\* the isolated program creates a file in the directory p
ContainerWrite(p) ==
    /\ mphase = "pivoted"
    /\ mwrite' = [path |-> p,
                  result |-> IF mnt[Covering(mnt, p)].ro THEN "ReadOnlyFilesystem"
                             ELSE "Ok"]
    /\ UNCHANGED <<host_mounts, mnt, mstep, mphase>>

\* the staging directory holds the layer, read-only or not; nothing else is
\* mounted yet
MountsAt(nested, ro) ==
    /\ host_mounts = nested
    /\ mnt = [p \in MntPaths |-> IF p = <<>> THEN Mount(ro) ELSE NoMount]
    /\ mstep = [e \in Entries |-> "todo"]
    /\ mphase = "staging"
    /\ mwrite = NoWrite

InitMount == \E nested \in [Entries -> SUBSET Below], ro \in BOOLEAN : MountsAt(nested, ro)

----------------------------------------------------------------------------
(* The send-stream decoder: sendstream_parser, wire::parse over FramedRead *)

VARIABLES
    wire,           \* the bytes the source holds
    sent,           \* the frames those bytes were made from, in wire order
    src_eof,        \* the source ends after `wire` (else it stalls there)
    rpos,           \* bytes FramedRead has read from the source
    consumed,       \* bytes the decoder has advanced past (src.advance)
    dstate,         \* SendstreamDecoder.state
    readable,       \* FramedRead: the buffer may hold a frame
    at_eof,         \* FramedRead: the source has reported its end
    items,          \* the items decode returned, with their byte footprints
    delivered,      \* the commands the stream gave its consumer
    derr,           \* the error the stream gave its consumer, if any
    ended,          \* the stream has ended (None, or after an error)
    consumer,       \* "active", or "abandoned" once it dropped the stream
    at_abandon      \* what was read and delivered when it was dropped

decoderVars == <<wire, sent, src_eof, rpos, consumed, dstate, readable, at_eof,
                 items, delivered, derr, ended, consumer, at_abandon>>

\* commands in one input, after its first stream header
MaxCmds == 2
\* the most bytes one read of the source returns
ChunkLen == 8

Min(a, b) == IF a < b THEN a ELSE b

\* n as w little-endian bytes
LE(n, w) == [i \in 1 .. w |-> (n \div (256 ^ (i - 1))) % 256]

\* nom::number::streaming::le_u16 / le_u32 on bytes that are all there
RECURSIVE LeU(_)
LeU(b) == IF b = <<>> THEN 0 ELSE b[1] + 256 * LeU(Tail(b))

Drop_(b, n) == SubSeq(b, n + 1, Len(b))

\* b"btrfs-stream\0"
MAGIC_HEADER == <<98, 116, 114, 102, 115, 45, 115, 116, 114, 101, 97, 109, 0>>

NomOk(used, val) == [r |-> "ok", used |-> used, val |-> val]
NomIncomplete == [r |-> "incomplete", used |-> 0, val |-> 0]
NomError == [r |-> "error", used |-> 0, val |-> 0]
\* the assert! of Command::parse fails
NomPanic == [r |-> "panic", used |-> 0, val |-> 0]

\* nom::bytes::streaming::tag: the bytes there are compared first, then a
\* short input asks for more
StreamingTag(b, t) ==
    IF \E i \in 1 .. Min(Len(b), Len(t)) : b[i] # t[i] THEN NomError
    ELSE IF Len(b) < Len(t) THEN NomIncomplete
    ELSE NomOk(Len(t), 0)

\* (tag(MAGIC_HEADER), le_u32)
sendstream_header(b) ==
    LET m == StreamingTag(b, MAGIC_HEADER)
    IN  IF m.r # "ok" THEN m
        ELSE IF Len(b) < m.used + 4 THEN NomIncomplete
        ELSE NomOk(m.used + 4, LeU(SubSeq(b, m.used + 1, m.used + 4)))

\* CommandHeader::parse: le_u32 len, le_u16 type, le_u32 crc32
CommandHeaderParse(b) ==
    IF Len(b) < 10 THEN NomIncomplete
    ELSE NomOk(10, [len |-> LeU(SubSeq(b, 1, 4)),
                    ty |-> LeU(SubSeq(b, 5, 6)),
                    crc32 |-> LeU(SubSeq(b, 7, 10))])

\* the type codes parse_subtypes! has a parser for, as CommandType numbers
\* them
ParsedSubtypes == (1 .. 22) \cup {25}

\* one attribute { tag:u16, size:u16, value } with the tag (and, if fixed,
\* the size) the field asks for
ParseTlv(b, tag, size) ==
    IF Len(b) < 4 THEN NomError
    ELSE LET sz == LeU(SubSeq(b, 3, 4))
         IN  IF LeU(SubSeq(b, 1, 2)) # tag THEN NomError
             ELSE IF size # 0 /\ sz # size THEN NomError
             ELSE IF Len(b) < 4 + sz THEN NomError
             ELSE NomOk(4 + sz, 0)

Attr(tag, size) == [tag |-> tag, size |-> size]

\* the attributes each command's parser reads, in order (size 0: any)
Layout(ty) ==
    CASE ty = 1 -> <<Attr(15, 0), Attr(1, 16), Attr(2, 8)>>      \* Subvol
      [] ty = 2 -> <<Attr(15, 0), Attr(1, 16), Attr(2, 8),
                     Attr(20, 16), Attr(21, 8)>>                 \* Snapshot
      [] ty = 4 -> <<Attr(15, 0), Attr(3, 8)>>                   \* Mkdir
      [] ty = 11 -> <<Attr(15, 0)>>                              \* Unlink
      [] ty = 12 -> <<Attr(15, 0)>>                              \* Rmdir
      [] ty = 21 -> <<>>                                         \* End

\* the parse_tlv calls of one command's parser: what is left of the body,
\* in `val`
RECURSIVE ParseAttrs(_, _)
ParseAttrs(b, layout) ==
    IF layout = <<>> THEN NomOk(0, b)
    ELSE LET r == ParseTlv(b, layout[1].tag, layout[1].size)
         IN  IF r.r # "ok" THEN r
             ELSE ParseAttrs(Drop_(b, r.used), Tail(layout))

\* what a command carries beside its type: the data of a Write, the otime
\* of a Utimes if it has one
NoPayload == <<"-">>
Cmd(ty, unknown) ==
    [kind |-> "cmd", ty |-> ty, unknown |-> unknown, payload |-> NoPayload]
Start(version) ==
    [kind |-> "start", ty |-> version, unknown |-> FALSE, payload |-> NoPayload]

\* Unknown::parse with the body handed back as what remains
UnknownParse_KeepBody(cmd_data, ty) == NomOk(0, cmd_data)

\* Unknown::parse: the body is thrown away
UnknownParse(cmd_data, ty) == NomOk(0, <<>>)

\* Attr::Data.tag() is the u16 of the data attribute
ATTR_DATA == 19
\* CommandType::Write
WRITE == 15

\* <Write as ParseCommandVersion>::parse with the data tag read by a parser
\* that fails on a short input
WriteParse_CompleteTag(input, sendstream_version) ==
    LET head == ParseAttrs(input, <<Attr(15, 0), Attr(18, 8)>>)
    IN  IF head.r # "ok" THEN head
        ELSE IF sendstream_version >= 2
            THEN IF Len(head.val) >= 2 /\ SubSeq(head.val, 1, 2) = LE(ATTR_DATA, 2)
                     THEN NomOk(0, <<>>)
                     ELSE NomError
        ELSE ParseAttrs(head.val, <<Attr(ATTR_DATA, 0)>>)

\* <Write as ParseCommandVersion>::parse: path and offset, then from
\* version 2 on the data tag by nom::bytes::streaming::tag with the rest of
\* the command as the data, before that the data as an attribute
WriteParse(input, sendstream_version) ==
    LET head == ParseAttrs(input, <<Attr(15, 0), Attr(18, 8)>>)
    IN  IF head.r # "ok" THEN head
        ELSE IF sendstream_version >= 2
            THEN LET t == StreamingTag(head.val, LE(ATTR_DATA, 2))
                 IN  IF t.r # "ok" THEN t ELSE NomOk(0, <<>>)
        ELSE ParseAttrs(head.val, <<Attr(ATTR_DATA, 0)>>)

\* the data of a Write that parsed: under version 1 the value of the data
\* attribute, from version 2 on all that follows the data tag
WriteData(input, sendstream_version) ==
    LET head == ParseAttrs(input, <<Attr(15, 0), Attr(18, 8)>>)
    IN  IF sendstream_version >= 2 THEN Drop_(head.val, 2)
        ELSE SubSeq(head.val, 5, 4 + LeU(SubSeq(head.val, 3, 4)))

\* CommandType::Utimes
UTIMES == 20
\* the attribute tags of the times
ATTR_CTIME == 9
ATTR_MTIME == 10
ATTR_ATIME == 11
ATTR_OTIME == 12
\* a timespec on the wire: u64 seconds, u32 nanoseconds
TimespecLen == 12

UtimesHead ==
    <<Attr(15, 0), Attr(ATTR_ATIME, TimespecLen), Attr(ATTR_MTIME, TimespecLen),
      Attr(ATTR_CTIME, TimespecLen)>>

\* `sendstream_version >= 2 && !input.is_empty()`: the otime is looked for
HasOtime_AnyVersion(input, sendstream_version) == input # <<>>

HasOtime(input, sendstream_version) == sendstream_version >= 2 /\ input # <<>>

\* <Utimes as ParseCommandVersion>::parse: path, atime, mtime, ctime, and
\* from version 2 on an otime if bytes are left
UtimesParse(input, sendstream_version) ==
    LET head == ParseAttrs(input, UtimesHead)
    IN  IF head.r # "ok" THEN head
        ELSE IF HasOtime(head.val, sendstream_version)
            THEN ParseAttrs(head.val, <<Attr(ATTR_OTIME, TimespecLen)>>)
        ELSE head

\* the otime of a Utimes that parsed
UtimesOtime(input, sendstream_version) ==
    LET head == ParseAttrs(input, UtimesHead)
    IN  IF HasOtime(head.val, sendstream_version) THEN <<"otime">> ELSE <<"no otime">>

\* parse_subtypes(hdr, cmd_data, version): (remaining, command), the
\* remaining bytes in `used`
parse_subtypes(hdr, cmd_data, sendstream_version) ==
    IF hdr.ty \in ParsedSubtypes
        THEN LET r == CASE hdr.ty = WRITE -> WriteParse(cmd_data, sendstream_version)
                        [] hdr.ty = UTIMES -> UtimesParse(cmd_data, sendstream_version)
                        [] OTHER -> ParseAttrs(cmd_data, Layout(hdr.ty))
                 payload ==
                      CASE hdr.ty = WRITE -> WriteData(cmd_data, sendstream_version)
                        [] hdr.ty = UTIMES -> UtimesOtime(cmd_data, sendstream_version)
                        [] OTHER -> NoPayload
             IN  IF r.r # "ok" THEN r
                 ELSE NomOk(r.val, [Cmd(hdr.ty, FALSE) EXCEPT !.payload = payload])
        ELSE NomOk(UnknownParse(cmd_data, hdr.ty).val, Cmd(hdr.ty, TRUE))

\* what is done with the body bytes a command's parser left: asserted empty
LeftoverBody(rest, used, cmd) == IF rest = <<>> THEN NomOk(used, cmd) ELSE NomPanic

\* <Command as ParseCommandVersion>::parse
CommandParse(b, sendstream_version) ==
    LET h == CommandHeaderParse(b)
    IN  IF h.r # "ok" THEN h
        ELSE IF Len(b) < 10 + h.val.len THEN NomIncomplete
        ELSE LET r == parse_subtypes(h.val, SubSeq(b, 11, 10 + h.val.len),
                                     sendstream_version)
             IN  IF r.r # "ok" THEN r
                 ELSE LeftoverBody(r.used, 10 + h.val.len, r.val)

Empty == [st |-> "Empty", version |-> 0]
Parsing(v) == [st |-> "Parsing", version |-> v]

\* the state kept at the first stream header's version
StateAfter_KeepFirst(state, item) ==
    IF item.kind = "start" /\ state.st = "Empty" THEN Parsing(item.ty) ELSE state

\* `self.state = State::Parsing(version)` after a stream header, in either
\* state; a command leaves the state as it is
StateAfter(state, item) ==
    IF item.kind = "start" THEN Parsing(item.ty) ELSE state

\* nom::branch::alt: the second parser runs only after an Error of the first
Alt(first, second) == IF first.r = "error" THEN second ELSE first

\* SendstreamDecoder::decode, as a nom result over the buffer's bytes
DecodeNom(state, b) ==
    LET h == sendstream_header(b)
    IN  IF state.st = "Empty" THEN [h EXCEPT !.val = Start(h.val)]
        ELSE Alt(IF h.r = "ok" THEN [h EXCEPT !.val = Start(h.val)] ELSE h,
                 CommandParse(b, state.version))

NoError == [kind |-> "none", n |-> 0]
Unparsable == [kind |-> "Unparsable", n |-> 0]
\* io::Error "bytes remaining on stream", of the default decode_eof
IoBytesRemaining == [kind |-> "IO", n |-> 0]
TrailingData(n) == [kind |-> "TrailingData", n |-> n]
Panic == [kind |-> "panic", n |-> 0]

\* a decode_eof that ends the stream in silence whatever the buffer holds
decode_eof_Silent(buf) == NoError

\* Decoder::decode_eof as FramedRead calls it once decode has answered
\* Ok(None) at the source's end: Ok(None) on an empty buffer, else the
\* io::Error "bytes remaining on stream"
decode_eof(buf) == IF buf = <<>> THEN NoError ELSE IoBytesRemaining

\* what decode makes of each nom result: Ok(Some(item)), Ok(None),
\* Err(Unparsable)
DecodeResult(r) ==
    CASE r.r = "ok" -> "item"
      [] r.r = "incomplete" -> "none"
      [] r.r = "error" -> "unparsable"
      [] r.r = "panic" -> "panic"

\* src.advance(starting_len - remaining.len()) with the whole buffer dropped
Advance_All(starting_len, remaining_len) == starting_len

\* src.advance(starting_len - remaining.len())
Advance(starting_len, remaining_len) == starting_len - remaining_len

\* the frames of an input: a stream header, or a command with its body
HdrFrame(v) == [k |-> "hdr", ty |-> v, body |-> <<>>, shape |-> "good"]
CmdFrame(ty, body, shape) == [k |-> "cmd", ty |-> ty, body |-> body, shape |-> shape]

Tlv(tag, val) == LE(tag, 2) \o LE(Len(val), 2) \o val
Bytes(n, v) == [i \in 1 .. n |-> v]

SubvolBody == Tlv(15, <<112>>) \o Tlv(1, Bytes(16, 17)) \o Tlv(2, Bytes(8, 3))
\* the path and the offset of a Write
WriteHead == Tlv(15, <<102>>) \o Tlv(18, Bytes(8, 0))

\* the commands the inputs are made of: well-formed ones, a known type with
\* a wrong attribute tag, a known type with a byte after its attributes, a
\* Write whose body ends before its data, types without a parser, and the
\* header of a further sendstream
CmdKinds ==
    { CmdFrame(1, SubvolBody, "good"),
      CmdFrame(12, Tlv(15, <<100>>), "good"),
      CmdFrame(12, Tlv(16, <<100>>), "wrongtag"),
      CmdFrame(21, <<>>, "good"),
      CmdFrame(21, <<0>>, "leftover"),
      CmdFrame(WRITE, WriteHead \o Tlv(ATTR_DATA, <<7>>), "good"),
      CmdFrame(WRITE, WriteHead, "short"),
      CmdFrame(23, <<1, 2>>, "opaque"),
      CmdFrame(99, Tlv(15, <<100>>), "opaque"),
      HdrFrame(2) }

Encode(f) ==
    IF f.k = "hdr" THEN MAGIC_HEADER \o LE(f.ty, 4)
    ELSE LE(Len(f.body), 4) \o LE(f.ty, 2) \o LE(0, 4) \o f.body

RECURSIVE Wire(_)
Wire(frames) == IF frames = <<>> THEN <<>> ELSE Encode(frames[1]) \o Wire(Tail(frames))

\* bytes that are no frame, after the last one
Garbage == <<255, 255, 255>>
Endings == {"exact", "garbage", "cut"}

\* the input's bytes: the frames as they are, with garbage after them, or
\* with the last bytes missing
InputWire(frames, ending) ==
    LET w == Wire(frames)
    IN  CASE ending = "exact" -> w
          [] ending = "garbage" -> w \o Garbage
          [] ending = "cut" -> SubSeq(w, 1, Len(w) - Len(Garbage))

NoAbandon == [rpos |-> -1, n |-> -1]

\* FramedRead::new(reader, SendstreamDecoder::new()) over a source
DecoderAt(frames, w, eof) ==
    /\ wire = w
    /\ sent = frames
    /\ src_eof = eof
    /\ rpos = 0
    /\ consumed = 0
    /\ dstate = Empty
    /\ readable = FALSE
    /\ at_eof = FALSE
    /\ items = <<>>
    /\ delivered = <<>>
    /\ derr = NoError
    /\ ended = FALSE
    /\ consumer = "active"
    /\ at_abandon = NoAbandon

CmdLists == UNION {[1 .. n -> CmdKinds] : n \in 0 .. MaxCmds}

InitDecoder ==
    \E cmds \in CmdLists, ending \in Endings, eof \in BOOLEAN :
        DecoderAt(<<HdrFrame(1)>> \o cmds,
                  InputWire(<<HdrFrame(1)>> \o cmds, ending), eof)

Buffer == SubSeq(wire, consumed + 1, rpos)

\* the stream worked on whether or not its consumer still polls it
Polled_Always(c) == TRUE

\* the consumer still polls the stream: a dropped stream does nothing
Polled(c) == c = "active"

\* parse's filter_map with the stream headers passed on as well
Delivers_All(item) == TRUE

\* parse's filter_map: Item::Command => Some, Item::SendstreamStart => None
Delivers(item) == item.kind = "cmd"

\* FramedRead reads the source: some bytes, or its end
ReadStep(n) ==
    /\ Polled(consumer) /\ ~ended
    /\ ~readable /\ ~at_eof
    /\ IF rpos < Len(wire)
           THEN /\ rpos' = Min(rpos + n, Len(wire))
                /\ UNCHANGED at_eof
           ELSE /\ src_eof
                /\ at_eof' = TRUE
                /\ UNCHANGED rpos
    /\ readable' = TRUE
    /\ UNCHANGED <<wire, sent, src_eof, consumed, dstate, items, delivered,
                   derr, ended, consumer, at_abandon>>

\* FramedRead calls decode (decode_eof once the source has ended) and
\* parse's filter_map passes commands and errors on
DecodeStep ==
    /\ Polled(consumer) /\ ~ended
    /\ readable
    /\ LET r == DecodeNom(dstate, Buffer)
           res == DecodeResult(r)
       IN  CASE res = "item" ->
                    /\ consumed' = consumed + Advance(Len(Buffer), Len(Buffer) - r.used)
                    /\ dstate' = StateAfter(dstate, r.val)
                    /\ items' = Append(items, [item |-> r.val, from |-> consumed,
                                               to |-> consumed + r.used])
                    /\ delivered' = IF Delivers(r.val) THEN Append(delivered, r.val)
                                    ELSE delivered
                    /\ UNCHANGED <<derr, ended, readable>>
             [] res = "none" ->
                    /\ IF at_eof
                           THEN /\ ended' = TRUE
                                /\ derr' = decode_eof(Buffer)
                                /\ UNCHANGED readable
                           ELSE /\ readable' = FALSE
                                /\ UNCHANGED <<derr, ended>>
                    /\ UNCHANGED <<consumed, dstate, items, delivered>>
             [] res = "unparsable" ->
                    /\ derr' = Unparsable
                    /\ ended' = TRUE
                    /\ UNCHANGED <<consumed, dstate, items, delivered, readable>>
             [] res = "panic" ->
                    /\ derr' = Panic
                    /\ ended' = TRUE
                    /\ UNCHANGED <<consumed, dstate, items, delivered, readable>>
    /\ UNCHANGED <<wire, sent, src_eof, rpos, at_eof, consumer, at_abandon>>

\* the consumer drops the stream
Abandon ==
    /\ consumer = "active" /\ ~ended
    /\ consumer' = "abandoned"
    /\ at_abandon' = [rpos |-> rpos, n |-> Len(delivered)]
    /\ UNCHANGED <<wire, sent, src_eof, rpos, consumed, dstate, readable,
                   at_eof, items, delivered, derr, ended>>

----------------------------------------------------------------------------
(* The OCI layer synthesizer: make_oci_layer, main *)

VARIABLES
    oci_pc,             \* where main is: "stream", "whiteouts", "ok", "err"
    nchanges,           \* changes taken from the stream so far
    entries,            \* Entries.entries: the accumulator of each open path
    finished_paths,     \* Entries.finished_paths
    had_set_times,      \* paths that had SetTimes
    pending_whiteouts,  \* paths removed and not seen alive since
    written_to_tar,     \* paths whose Close put an entry into the archive
    tar,                \* what the Builder was given, in order
    wh_todo,            \* what the loop over pending_whiteouts has yet to visit
    child,              \* what main has seen of the child layer's tree
    oci_err,            \* the error main returned
    hist                \* per path: what the stream held for it

ociVars == <<oci_pc, nchanges, entries, finished_paths, had_set_times,
             pending_whiteouts, written_to_tar, tar, wh_todo, child, oci_err,
             hist>>

\* changes in one stream
MaxChanges == 3

FIXED_MTIME == 1075852800

\* 0o644, the mode of a whiteout marker
WhiteoutMode == 420

\* nix SFlag bits
S_IFCHR == 8192
S_IFBLK == 24576

\* paths relative to the layer's root, by component; <<>> is Path::new("")
OciRoot == <<>>
DeepPath == <<"a", "b", "c">>
OciPaths == {OciRoot, <<"a">>, <<"a", "b">>, DeepPath, <<"d">>}

\* the paths a stream creates and removes; the root is in the parent and in
\* the child, and a stream only touches it
ChangedPaths == OciPaths \ {OciRoot}

PathParent(p) == SubSeq(p, 1, Len(p) - 1)
file_name(p) == p[Len(p)]

\* Path::ancestors().skip(1)
ProperAncestors(p) == {SubSeq(p, 1, k) : k \in 0 .. (Len(p) - 1)}

\* OsString::from(".wh.") with the file name pushed onto it
WhName(name) ==
    CASE name = "a" -> ".wh.a"
      [] name = "b" -> ".wh.b"
      [] name = "c" -> ".wh.c"
      [] name = "d" -> ".wh.d"

WhNames == {".wh.a", ".wh.b", ".wh.c", ".wh.d"}

\* wh_path.parent().unwrap_or("").join(wh_name)
WhFullPath(p) == PathParent(p) \o <<WhName(file_name(p))>>

\* the operations a change carries, with the arguments the stream gave them
Change(op, mode, rdev, uid, gid, target, name) ==
    [op |-> op, mode |-> mode, rdev |-> rdev, uid |-> uid, gid |-> gid,
     target |-> target, name |-> name]

\* an attribute name that is no UTF-8: OsStr::to_str gives None for it
NotUtf8Name == "user.<ff>"

to_str_Lossy(name) == name

to_str(name) == IF name = NotUtf8Name THEN "None" ELSE name

AliveChanges ==
    { Change("Create", 420, 0, 0, 0, <<>>, ""),
      Change("Mkdir", 493, 0, 0, 0, <<>>, ""),
      Change("Mkfifo", 420, 0, 0, 0, <<>>, ""),
      Change("Mknod", S_IFCHR + 420, 259, 0, 0, <<>>, ""),
      Change("Mknod", S_IFBLK + 420, 259, 0, 0, <<>>, ""),
      Change("Chmod", 420, 0, 0, 0, <<>>, ""),
      Change("Chown", 0, 0, 0, 0, <<>>, ""),
      Change("HardLink", 0, 0, 0, 0, <<"d">>, ""),
      Change("Symlink", 0, 0, 0, 0, <<"d">>, ""),
      Change("Rename", 0, 0, 0, 0, <<"d">>, ""),
      Change("Contents", 0, 0, 0, 0, <<>>, ""),
      Change("RemoveXattr", 0, 0, 0, 0, <<>>, "user.x"),
      Change("SetXattr", 0, 0, 0, 0, <<>>, "user.x"),
      Change("SetXattr", 0, 0, 0, 0, <<>>, "security.y"),
      Change("SetXattr", 0, 0, 0, 0, <<>>, NotUtf8Name) }

AliveOps == {c.op : c \in AliveChanges}

\* the changes of a stream that leave their path alive, with their paths
\* the changes the streams hold: all of them on the paths near the root, a
\* file made or given contents deep in the tree, the mode of the root
AliveOn ==
    (AliveChanges \X (ChangedPaths \ {DeepPath}))
        \cup ({c \in AliveChanges : c.op \in {"Create", "Contents"}} \X {DeepPath})
        \cup ({c \in AliveChanges : c.op = "Chmod"} \X {OciRoot})

DefaultEntry_Bare ==
    [entry_type |-> "Regular", mode |-> 0, uid |-> 0, gid |-> 0,
     mtime |-> 0, size |-> 0,
     dev |-> <<0, 0>>, contents |-> "Unset", link |-> <<>>,
     extensions |-> <<>>]

\* Entry::default(): a ustar header with the fixed mtime and size 0
DefaultEntry ==
    [entry_type |-> "Regular", mode |-> 0, uid |-> 0, gid |-> 0,
     mtime |-> FIXED_MTIME, size |-> 0,
     dev |-> <<0, 0>>, contents |-> "Unset", link |-> <<>>,
     extensions |-> <<>>]

NoEntry == [DefaultEntry EXCEPT !.entry_type = "none"]

\* nix major / minor of a small device number
DevMajor(rdev) == (rdev \div 256) % 4096
DevMinor(rdev) == rdev % 256

\* SFlag::from_bits_truncate(mode).contains(SFlag::S_IFBLK)
ContainsIfBlk(mode) ==
    HasBit(mode, S_IFCHR) /\ HasBit(mode, S_IFBLK - S_IFCHR)

\* "SCHILY.xattr." with the attribute's name pushed onto it
XattrKey(name) ==
    CASE name = "user.x" -> "SCHILY.xattr.user.x"
      [] name = "security.y" -> "SCHILY.xattr.security.y"
      [] name = NotUtf8Name -> "SCHILY.xattr.user.<ff>"

\* the order of the keys as strings
KeyRank(key) == IF key = "SCHILY.xattr.security.y" THEN 1 ELSE 2

\* entry.extensions.sort()
SortedExtensions(ext) == SortSeq(ext, LAMBDA a, b : KeyRank(a) < KeyRank(b))

\* what each arm of the match does to the path's accumulator
Accumulate(e, c) ==
    CASE c.op = "Create" -> [e EXCEPT !.mode = c.mode, !.entry_type = "Regular"]
      [] c.op = "Mkdir" -> [e EXCEPT !.mode = c.mode, !.entry_type = "Directory"]
      [] c.op = "Mkfifo" -> [e EXCEPT !.mode = c.mode, !.entry_type = "Fifo"]
      [] c.op = "Mknod" ->
            [e EXCEPT !.mode = c.mode,
                      !.entry_type = IF ContainsIfBlk(c.mode) THEN "Block"
                                     ELSE "Char",
                      !.dev = <<DevMajor(c.rdev), DevMinor(c.rdev)>>]
      [] c.op = "Chmod" -> [e EXCEPT !.mode = c.mode]
      [] c.op = "Chown" -> [e EXCEPT !.uid = c.uid, !.gid = c.gid]
      [] c.op = "HardLink" ->
            [e EXCEPT !.entry_type = "Link", !.contents = "Link",
                      !.link = c.target]
      [] c.op = "Symlink" ->
            [e EXCEPT !.entry_type = "Symlink", !.contents = "Link",
                      !.link = c.target]
      [] c.op = "Contents" -> [e EXCEPT !.contents = "File"]
      [] c.op = "SetXattr" ->
            [e EXCEPT !.extensions = Append(@, XattrKey(to_str(c.name)))]
      [] c.op \in {"Rename", "RemoveXattr"} -> e

\* one header handed to the Builder, with the fixed mtime set on it, and
\* the data that goes with it: "empty", the "file" it is streamed from, or
\* the "pax" records
TarEntry(path, ty, mode, uid, gid, size, link, dev) ==
    [path |-> path, entry_type |-> ty, mode |-> mode, uid |-> uid,
     gid |-> gid, mtime |-> FIXED_MTIME, size |-> size, link |-> link,
     dev |-> dev, data |-> "empty", pax |-> <<>>]

\* the accumulated header of a path, with what the Close arm sets on it
FromHeader(path, e, ty, mode, size, link) ==
    [TarEntry(path, ty, mode, e.uid, e.gid, size, link, e.dev)
        EXCEPT !.mtime = e.mtime]

\* Builder::append_pax_extensions: nothing for an empty list, else one
\* extended header of the Builder's own (a fresh ustar header with the size
\* and the type set) ahead of the entry, the records as they were handed in
PaxExtensions(e) ==
    IF e.extensions = <<>> THEN <<>>
    ELSE <<[TarEntry(OciRoot, "XHeader", 0, 0, 0, Len(e.extensions), <<>>,
                     <<0, 0>>)
               EXCEPT !.mtime = 0, !.data = "pax",
                      !.pax = SortedExtensions(e.extensions)]>>

\* what the child layer and the file handles of the stream hold
ChildTypes == {"file", "dir", "symlink", "other", "absent"}
FsFile == [mode |-> 33152, len |-> 1]
FsDir == [mode |-> 16877, uid |-> 1000, gid |-> 1000]
FsLink == <<"d">>

\* a tree: what lies beneath something that is not a directory is absent
TreeLike(c) ==
    \A p \in OciPaths : \A q \in ProperAncestors(p) :
        (c[p] \notin {"unknown", "absent"} /\ c[q] # "unknown") => c[q] = "dir"

\* the layouts of the child layer that agree with what was seen of it and
\* say what the paths of `asked` are
Seen(asked) ==
    LET new == {p \in asked : child[p] = "unknown"}
    IN  IF new = {} THEN {child}
        ELSE {c \in {[p \in OciPaths |-> IF p \in new THEN f[p] ELSE child[p]] :
                        f \in [new -> ChildTypes]} : TreeLike(c)}

\* an error that is about no path
OciNoPath == <<"">>

\* the child layer holds at a path what the stream said was made there
Agrees(e, meta) ==
    /\ e.entry_type = "Directory" => meta = "dir"
    /\ e.entry_type \in {"Fifo", "Block", "Char"} => meta = "other"

NoOciError == [kind |-> "none", path |-> OciNoPath, name |-> ""]
OciError(kind, path) == [kind |-> kind, path |-> path, name |-> ""]

\* removed: "no", "removed" (Unlink or Rmdir came last), "revived" (seen
\* alive since); ops: "none", "times" (SetTimes and Close only, SetTimes
\* first), "close" (the same, Close first), "other"; acc: the accumulator
\* its Close took out; badx: "no", "open" (a SetXattr with a name that is no
\* UTF-8 came for it), "closed" (one came after its Close)
NoHist == [removed |-> "no", ops |-> "none", acc |-> NoEntry, badx |-> "no"]

Noted(p, op) ==
    [hist EXCEPT ![p] =
        [removed |-> IF op \in {"Unlink", "Rmdir"} THEN "removed"
                     ELSE IF op \in AliveOps /\ @.removed = "removed"
                              THEN "revived"
                     ELSE @.removed,
         ops |-> IF op \notin {"SetTimes", "Close"} THEN "other"
                 ELSE IF @.ops # "none" THEN @.ops
                 ELSE IF op = "SetTimes" THEN "times" ELSE "close",
         acc |-> @.acc,
         badx |-> @.badx]]

OciAt(at) ==
    /\ oci_pc = at
    /\ nchanges = 0
    /\ entries = [p \in OciPaths |-> NoEntry]
    /\ finished_paths = {}
    /\ had_set_times = {}
    /\ pending_whiteouts = {}
    /\ written_to_tar = {}
    /\ tar = <<>>
    /\ wh_todo = {}
    /\ child = [p \in OciPaths |-> IF p = OciRoot THEN "dir" ELSE "unknown"]
    /\ oci_err = NoOciError
    /\ hist = [p \in OciPaths |-> NoHist]

InitOci == OciAt("stream")

Taking == oci_pc = "stream" /\ nchanges < MaxChanges

Fails(kind, path) ==
    /\ oci_pc' = "err"
    /\ oci_err' = OciError(kind, path)

\* `let change = change?`: the stream itself fails
ChangeFails ==
    /\ Taking
    /\ nchanges' = nchanges + 1
    /\ Fails("Stream", OciNoPath)
    /\ UNCHANGED <<entries, finished_paths, had_set_times, pending_whiteouts,
                   written_to_tar, tar, wh_todo, child, hist>>

already_closed_Never(path, finished) == FALSE

\* Entries::entry: `if self.finished_paths.contains(&path)`
already_closed(path, finished) == path \in finished

\* Create, Mkdir, Mkfifo, Mknod, Chmod, Chown, HardLink, Symlink, Rename,
\* Contents, RemoveXattr, SetXattr
ChangeAlive(c, path) ==
    /\ Taking
    /\ nchanges' = nchanges + 1
    /\ hist' = [Noted(path, c.op) EXCEPT ![path].badx =
                    IF c.op = "SetXattr" /\ c.name = NotUtf8Name
                        THEN (IF path \in finished_paths THEN "closed"
                              ELSE "open")
                    ELSE @]
    /\ pending_whiteouts' = pending_whiteouts \ {path}
    /\ IF already_closed(path, finished_paths)
          THEN /\ Fails("AlreadyClosed", path)
               /\ UNCHANGED entries
          ELSE IF c.op = "SetXattr" /\ to_str(c.name) = "None"
          THEN /\ entries' = [entries EXCEPT ![path] =
                      IF @ = NoEntry THEN DefaultEntry ELSE @]
               /\ oci_pc' = "err"
               /\ oci_err' = [OciError("XattrNotUtf8", path)
                                 EXCEPT !.name = c.name]
          ELSE /\ entries' = [entries EXCEPT ![path] =
                      Accumulate(IF @ = NoEntry THEN DefaultEntry ELSE @, c)]
               /\ UNCHANGED <<oci_pc, oci_err>>
    /\ UNCHANGED <<finished_paths, had_set_times, written_to_tar, tar, wh_todo,
                   child>>

ChangeSetTimes(path) ==
    /\ Taking
    /\ nchanges' = nchanges + 1
    /\ hist' = Noted(path, "SetTimes")
    /\ had_set_times' = had_set_times \cup {path}
    /\ UNCHANGED <<oci_pc, entries, finished_paths, pending_whiteouts,
                   written_to_tar, tar, wh_todo, child, oci_err>>

\* Unlink, Rmdir (never of the layer's root)
ChangeRemove(op, path) ==
    /\ Taking
    /\ path # OciRoot
    /\ nchanges' = nchanges + 1
    /\ hist' = Noted(path, op)
    /\ pending_whiteouts' = pending_whiteouts \cup {path}
    /\ UNCHANGED <<oci_pc, entries, finished_paths, had_set_times,
                   written_to_tar, tar, wh_todo, child, oci_err>>

\* Close of a path the accumulator does not hold
ClosedUnopened_Bail(path) == "bail"

ClosedUnopened_Skip(path) == "continue"

ClosedUnopened(path) == IF path \in had_set_times THEN "continue" ELSE "bail"

\* what the Close arm appends for the entry e of path, the child layer
\* holding `meta` there: the entries, and the error that ends it
Streamed_KeepHeader(path, e) ==
    [FromHeader(path, e, e.entry_type, e.mode, FsFile.len, <<>>)
        EXCEPT !.data = "file"]

\* an entry streamed from a file: mode and size from the file's metadata,
\* the type forced to Regular
Streamed(path, e) ==
    [FromHeader(path, e, "Regular", FsFile.mode % 4096, FsFile.len, <<>>)
        EXCEPT !.data = "file"]

Appended(path, e, meta) ==
    CASE e.contents = "Link" ->
            [out |-> <<FromHeader(path, e, e.entry_type, e.mode, e.size,
                                  e.link)>>,
             err |-> "none"]
      [] e.contents = "File" ->
            [out |-> <<Streamed(path, e)>>, err |-> "none"]
      [] e.contents = "Unset" /\ meta = "absent" ->
            [out |-> <<>>, err |-> "Io"]
      [] e.contents = "Unset" /\ meta = "file" ->
            [out |-> <<Streamed(path, e)>>, err |-> "none"]
      [] e.contents = "Unset" /\ meta = "dir" ->
            [out |-> <<FromHeader(path, e, "Directory", e.mode, e.size,
                                  <<>>)>>,
             err |-> "none"]
      [] e.contents = "Unset" /\ meta = "symlink" ->
            [out |-> <<FromHeader(path, e, "Symlink", e.mode, e.size,
                                  FsLink)>>,
             err |-> "none"]
      [] e.contents = "Unset" /\ meta = "other" ->
            [out |-> <<>>, err |-> "UnsetContents"]

ChangeClose(path) ==
    /\ Taking
    /\ nchanges' = nchanges + 1
    /\ hist' = [Noted(path, "Close") EXCEPT ![path].acc = entries[path]]
    /\ finished_paths' = finished_paths \cup {path}
    /\ entries' = [entries EXCEPT ![path] = NoEntry]
    /\ IF entries[path] = NoEntry
          THEN /\ IF ClosedUnopened(path) = "continue"
                     THEN UNCHANGED <<oci_pc, oci_err>>
                     ELSE Fails("NeverOpened", path)
               /\ UNCHANGED <<pending_whiteouts, written_to_tar, tar, child>>
          ELSE /\ pending_whiteouts' = pending_whiteouts \ {path}
               /\ IF path = OciRoot
                     THEN UNCHANGED <<oci_pc, oci_err, written_to_tar, tar,
                                      child>>
                     ELSE \E c \in Seen(IF entries[path].contents = "Unset"
                                        THEN {path} ELSE {}) :
                            LET a == Appended(path, entries[path], c[path])
                            IN  /\ entries[path].contents = "Unset" =>
                                        Agrees(entries[path], c[path])
                                /\ child' = c
                                /\ tar' = tar \o PaxExtensions(entries[path])
                                              \o a.out
                                /\ IF a.err = "none"
                                      THEN /\ written_to_tar' =
                                                written_to_tar \cup {path}
                                           /\ UNCHANGED <<oci_pc, oci_err>>
                                      ELSE /\ Fails(a.err, path)
                                           /\ UNCHANGED written_to_tar
    /\ UNCHANGED <<had_set_times, wh_todo>>

MissingParents_None == {}

\* the ancestors, short of the root, of what was written
MissingParents ==
    {q \in UNION {ProperAncestors(p) : p \in written_to_tar} :
        q # OciRoot /\ q \notin written_to_tar}

\* parents_to_add in any order
ByDepth_Unsorted(S) ==
    {s \in [1 .. Cardinality(S) -> S] : \A i, j \in DOMAIN s : i < j => s[i] # s[j]}

\* parents_to_add in the order the sort by component count leaves them
ByDepth(S) ==
    {s \in [1 .. Cardinality(S) -> S] :
        /\ \A i, j \in DOMAIN s : i < j => s[i] # s[j] /\ Len(s[i]) <= Len(s[j])}

ParentEntry(p) ==
    TarEntry(p, "Directory", FsDir.mode, FsDir.uid, FsDir.gid, 0, <<>>, <<0, 0>>)

RECURSIVE ParentEntries(_, _)
ParentEntries(s, c) ==
    IF s = <<>> THEN <<>>
    ELSE (IF c[Head(s)] = "dir" THEN <<ParentEntry(Head(s))>> ELSE <<>>)
            \o ParentEntries(Tail(s), c)

\* the stream is over: the parent directories go in, and the loop over
\* pending_whiteouts begins (what lies above a path of the stream is a
\* directory of the child layer, if it is there at all)
AddParents ==
    /\ oci_pc = "stream"
    /\ \E c \in Seen(MissingParents) :
         /\ \A q \in MissingParents : c[q] \in {"dir", "absent"}
         /\ \E s \in ByDepth({q \in MissingParents : c[q] # "absent"}) :
            /\ child' = c
            /\ tar' = tar \o ParentEntries(s, c)
    /\ oci_pc' = "whiteouts"
    /\ wh_todo' = pending_whiteouts
    /\ UNCHANGED <<nchanges, entries, finished_paths, had_set_times,
                   pending_whiteouts, written_to_tar, oci_err, hist>>

has_deleted_ancestor_Never(wh_path) == FALSE

has_deleted_ancestor(wh_path) ==
    \E ancestor \in ProperAncestors(wh_path) : ancestor \in pending_whiteouts

WhiteoutEntry(wh_path) ==
    TarEntry(WhFullPath(wh_path), "Regular", WhiteoutMode, 0, 0, 0, <<>>,
             <<0, 0>>)

\* one turn of the loop over pending_whiteouts, in the set's own order
WriteWhiteout ==
    /\ oci_pc = "whiteouts"
    /\ \E wh_path \in wh_todo :
        /\ wh_todo' = wh_todo \ {wh_path}
        /\ tar' = IF has_deleted_ancestor(wh_path) THEN tar
                  ELSE Append(tar, WhiteoutEntry(wh_path))
    /\ UNCHANGED <<oci_pc, nchanges, entries, finished_paths, had_set_times,
                   pending_whiteouts, written_to_tar, child, oci_err, hist>>

is_empty_Unchecked(acc) == TRUE

\* Entries::is_empty
is_empty(acc) == \A p \in OciPaths : acc[p] = NoEntry

\* ensure!(entries.is_empty(), ...)
EnsureClosed ==
    /\ oci_pc = "whiteouts"
    /\ wh_todo = {}
    /\ IF is_empty(entries)
          THEN /\ oci_pc' = "ok"
               /\ UNCHANGED oci_err
          ELSE Fails("NotAllClosed", OciNoPath)
    /\ UNCHANGED <<nchanges, entries, finished_paths, had_set_times,
                   pending_whiteouts, written_to_tar, tar, wh_todo, child,
                   hist>>

----------------------------------------------------------------------------
(* The send-stream decoder over inputs of either version *)

Timespec(n) == Bytes(TimespecLen, n)
\* the path and the three times of a Utimes
UtimesBody ==
    Tlv(15, <<102>>) \o Tlv(ATTR_ATIME, Timespec(1)) \o Tlv(ATTR_MTIME, Timespec(2))
        \o Tlv(ATTR_CTIME, Timespec(3))

\* commands whose layout depends on the version: a Write with its data as an
\* attribute, a Write with two data bytes after the tag, a Utimes without an
\* otime and one with it; and a command that does not
VersionedKinds ==
    { CmdFrame(WRITE, WriteHead \o Tlv(ATTR_DATA, <<7>>), "good"),
      CmdFrame(WRITE, WriteHead \o LE(ATTR_DATA, 2) \o <<7, 8>>, "good"),
      CmdFrame(UTIMES, UtimesBody, "good"),
      CmdFrame(UTIMES, UtimesBody \o Tlv(ATTR_OTIME, Timespec(4)), "good"),
      CmdFrame(21, <<>>, "good"),
      HdrFrame(2) }

\* what an input starts with: a stream header of version 1 or 2, a command
\* with no header before it, bytes that are no header, or nothing
Leads ==
    { <<HdrFrame(1)>>, <<HdrFrame(2)>>, <<CmdFrame(21, <<>>, "good")>>,
      <<CmdFrame(99, Garbage, "opaque")>>, <<>> }

VersionedLists == UNION {[1 .. n -> VersionedKinds] : n \in 0 .. MaxCmds}

InitVersioned ==
    \E lead \in Leads, cmds \in VersionedLists, ending \in {"exact", "cut"},
       eof \in BOOLEAN :
        /\ ending = "cut" => lead \o cmds # <<>>
        /\ DecoderAt(lead \o cmds, InputWire(lead \o cmds, ending), eof)

----------------------------------------------------------------------------
(* Specifications: each runs one part, the others stand still *)

vars == <<btrfsVars, driverVars, mountVars, decoderVars, ociVars>>

besideBtrfs == <<driverVars, mountVars, decoderVars, ociVars>>
besideDriver == <<btrfsVars, mountVars, decoderVars, ociVars>>
besideMount == <<btrfsVars, driverVars, decoderVars, ociVars>>
besideDecoder == <<btrfsVars, driverVars, mountVars, ociVars>>
besideOci == <<btrfsVars, driverVars, mountVars, decoderVars>>

NoNested == [e \in Entries |-> {}]

\* the life of subvolume handles: made, deleted, dropped
NextHandle ==
    \/ \E p \in Paths, fault \in OpenFaults :
           Open(p, fault) /\ UNCHANGED besideBtrfs
    \/ \E p \in Targets, fault \in CreateFaults :
           Create(p, fault) /\ UNCHANGED besideBtrfs
    \/ \E s \in Slots, p \in Targets, flags \in SnapshotFlagSet, fault \in CreateFaults :
           Snapshot(s, p, flags, fault) /\ UNCHANGED besideBtrfs
    \/ \E s \in Slots, e2 \in Errnos, e1 \in Errnos :
           Delete(s, e2, e1) /\ UNCHANGED besideBtrfs
    \/ \E s \in Slots : Drop(s) /\ UNCHANGED besideBtrfs

\* the read-only flag: subvolumes made, flagged and written
NextReadonly ==
    \/ \E p \in Targets : Open(p, "none") /\ UNCHANGED besideBtrfs
    \/ \E p \in Targets : Create(p, "none") /\ UNCHANGED besideBtrfs
    \/ \E s \in Slots, p \in Targets, flags \in SnapshotFlagSet :
           Snapshot(s, p, flags, "none") /\ UNCHANGED besideBtrfs
    \/ \E s \in Slots, ro \in BOOLEAN, fault \in SetFaults :
           SetReadonly(s, ro, fault) /\ UNCHANGED besideBtrfs
    \/ \E p \in Paths, f \in Files : Write(p, f) /\ UNCHANGED besideBtrfs
    \/ \E s \in Slots : Drop(s) /\ UNCHANGED besideBtrfs

NextDriver ==
    \/ \E d \in Pids, ok \in BOOLEAN : Unshare(d, ok) /\ UNCHANGED besideDriver
    \/ \E d \in Pids, fault \in PrepareFaults :
           Prepare(d, fault) /\ UNCHANGED besideDriver
    \/ \E d \in Pids, fault \in SpawnFaults : Spawn(d, fault) /\ UNCHANGED besideDriver
    \/ \E d \in Pids, f \in ProgramFiles : Pid1Write(d, f) /\ UNCHANGED besideDriver
    \/ \E d \in Pids, st \in Statuses, deleted \in BOOLEAN :
           Pid1Exit(d, st, deleted) /\ UNCHANGED besideDriver
    \/ \E d \in Pids, ok \in BOOLEAN : Wait(d, ok) /\ UNCHANGED besideDriver
    \/ \E d \in Pids, open_ok \in BOOLEAN, delete_ok \in BOOLEAN, remove_ok \in BOOLEAN :
           Cleanup(d, open_ok, delete_ok, remove_ok) /\ UNCHANGED besideDriver
    \/ \E d \in Pids : Finish(d) /\ UNCHANGED besideDriver

NextMount ==
    \/ \E e \in Entries, rec \in BOOLEAN : BindMount(e, rec) /\ UNCHANGED besideMount
    \/ \E e \in ReadonlyEntries, ok \in BOOLEAN :
           MakeMountReadonly(e, ok) /\ UNCHANGED besideMount
    \/ PivotRoot /\ UNCHANGED besideMount
    \/ \E p \in MntPaths : ContainerWrite(p) /\ UNCHANGED besideMount

NextDecoder ==
    \/ \E n \in {ChunkLen, 2 * ChunkLen} : ReadStep(n) /\ UNCHANGED besideDecoder
    \/ DecodeStep /\ UNCHANGED besideDecoder
    \/ Abandon /\ UNCHANGED besideDecoder

NextOci ==
    \/ ChangeFails /\ UNCHANGED besideOci
    \/ \E on \in AliveOn : ChangeAlive(on[1], on[2]) /\ UNCHANGED besideOci
    \/ \E p \in OciPaths : ChangeSetTimes(p) /\ UNCHANGED besideOci
    \/ \E op \in {"Unlink", "Rmdir"}, p \in ChangedPaths :
           ChangeRemove(op, p) /\ UNCHANGED besideOci
    \/ \E p \in OciPaths : ChangeClose(p) /\ UNCHANGED besideOci
    \/ AddParents /\ UNCHANGED besideOci
    \/ WriteWhiteout /\ UNCHANGED besideOci
    \/ EnsureClosed /\ UNCHANGED besideOci

\* the parts that stand still: no handle, no driver, an empty staging tree,
\* no input to parse, no layer to make
BtrfsIdle == BtrfsAt(0)
DriverIdle == DriversAt({})
MountIdle == MountsAt(NoNested, FALSE)
DecoderIdle == DecoderAt(<<>>, <<>>, TRUE)
OciIdle == OciAt("idle")

InitHandle == InitBtrfs /\ DriverIdle /\ MountIdle /\ DecoderIdle /\ OciIdle
SpecHandle == InitHandle /\ [][NextHandle]_vars

InitReadonly == InitBtrfs /\ DriverIdle /\ MountIdle /\ DecoderIdle /\ OciIdle
SpecReadonly == InitReadonly /\ [][NextReadonly]_vars

\* one driver process
InitDriver == BtrfsIdle /\ DriversAt({41}) /\ MountIdle /\ DecoderIdle /\ OciIdle
SpecDriver == InitDriver /\ [][NextDriver]_vars

\* two driver processes at once, on the same layer
InitDrivers ==
    /\ BtrfsIdle /\ DriversAt(Pids) /\ MountIdle /\ DecoderIdle /\ OciIdle
    /\ \A d, e \in Pids : Canonicalize(ctx[d].layer) = Canonicalize(ctx[e].layer)
SpecDrivers == InitDrivers /\ [][NextDriver]_vars

InitMountTree == BtrfsIdle /\ DriverIdle /\ InitMount /\ DecoderIdle /\ OciIdle
SpecMount == InitMountTree /\ [][NextMount]_vars

\* one parse of one input
InitParse == BtrfsIdle /\ DriverIdle /\ MountIdle /\ InitDecoder /\ OciIdle
SpecDecoder == InitParse /\ [][NextDecoder]_vars

\* one parse of one input of either version, with or without its header
InitVersions == BtrfsIdle /\ DriverIdle /\ MountIdle /\ InitVersioned /\ OciIdle
SpecVersions == InitVersions /\ [][NextDecoder]_vars

\* one run of make_oci_layer over one change stream
InitLayer == BtrfsIdle /\ DriverIdle /\ MountIdle /\ DecoderIdle /\ InitOci
SpecOci == InitLayer /\ [][NextOci]_vars

----------------------------------------------------------------------------
(* Properties of the subvolume handle *)

IsSubvolRoot(o) == ObjFsType(o) = "btrfs" /\ ObjIno(o) = INO_SUBVOL

\* system calls of open that come before the filesystem check, and before
\* the inode check
BeforeFsCheck == {"open_parent", "open", "fstatfs"}
BeforeInoCheck == BeforeFsCheck \cup {"fstat"}

\* C6: every Subvolume that open, create or snapshot returns, and every one
\* held, has a descriptor on a btrfs directory of inode 256. open of a
\* directory that is not on btrfs yields NotBtrfs, open of a btrfs directory
\* of another inode number yields NotSubvol (when the system calls before the
\* check succeed), the filesystem being checked first, and neither issues the
\* inode-lookup ioctl.
C6_OpenOnlySubvolRoots ==
    /\ \A s \in LiveSlots : IsSubvolRoot(handles[s].fd)
    /\ last.returned # NoHandle => IsSubvolRoot(last.returned.fd)
    /\ last.op \in {"open", "create", "snapshot"} /\ last.result = "Ok" =>
           last.returned # NoHandle
    /\ last.op = "open" /\ dirent[last.path] # NoObj =>
           LET o == dirent[last.path]
           IN  /\ ObjFsType(o) # "btrfs" =>
                      /\ last.result = IF last.fault \in BeforeFsCheck
                                           THEN "Io" ELSE "NotBtrfs"
                      /\ last.ioctls = <<>>
               /\ ObjFsType(o) = "btrfs" /\ ObjIno(o) # INO_SUBVOL =>
                      /\ last.result = IF last.fault \in BeforeInoCheck
                                           THEN "Io" ELSE "NotSubvol"
                      /\ last.ioctls = <<>>

\* a plain btrfs directory was refused while a Subvolume is held
C6_Witness ==
    /\ last.op = "open"
    /\ last.result = "NotSubvol"
    /\ LiveSlots # {}

\* C7: a subvolume's read-only bit is the one the calls so far ask for
\* (snapshot(READONLY), the last successful set_readonly), the files in it are
\* the ones written while it was writable (for a snapshot: on top of its
\* source's at snapshot time), and a write is refused as read-only exactly
\* when the bit is asked to be set.
C7_ReadonlyDecidesWrites ==
    /\ \A v \in 0 .. nvols :
           /\ HasBit(vol_flags[v], READ_ONLY) = expect_ro[v]
           /\ vol_files[v] = expect_files[v]
    /\ last.op = "write" =>
           (last.result = "ReadOnlyFilesystem") = expect_ro[dirent[last.path].n]

\* a write refused on a subvolume that keeps a file written before
C7_Witness ==
    /\ last.op = "write"
    /\ last.result = "ReadOnlyFilesystem"
    /\ vol_files[dirent[last.path].n] # {}

PairDone == last.before # <<>>
PairIoctls == Len(last.before) + Len(last.ioctls)
PairSets == SetsIssued(last.before) + SetsIssued(last.ioctls)

\* C8 as stated: set_readonly(true) then set_readonly(false) on one handle
\* issue at most two ioctls in total.
C8_PairAtMostTwoIoctls == PairDone => PairIoctls <= 2

\* C8 amended: the pair issues at most two set-flags ioctls, one per call and
\* only in a call that finds the bit in the other state; with the get-flags
\* ioctl each call starts with that is at most four ioctls, and at most three
\* when the subvolume was read-only already.
C8_PairAtMostTwoSetFlags ==
    PairDone =>
        /\ PairSets <= 2
        /\ PairIoctls <= 4
        /\ HasBit(last.before[1].val, READ_ONLY) => PairIoctls <= 3

\* a pair on a writable subvolume: four ioctls
C8_Witness == PairDone /\ PairIoctls = 4 /\ PairSets = 2

\* C9: delete of a Subvolume with a parent issues snap_destroy_v2 by id
\* (SPEC_BY_ID) first; snap_destroy by name is issued iff that failed with
\* EOPNOTSUPP or ENOSYS; another errno of v2, or an errno of v1, is the Io
\* result with nothing further tried.
C9_DeleteV2ThenV1 ==
    last.op = "delete" /\ last.given.parent # NoPath =>
        LET io == last.ioctls
        IN  /\ Len(io) \in {1, 2}
            /\ io[1].name = "snap_destroy_v2"
            /\ io[1].how = "SPEC_BY_ID"
            /\ io[1].val = last.given.id
            /\ Len(io) = 2 <=> io[1].ret \in {"EOPNOTSUPP", "ENOSYS"}
            /\ Len(io) = 2 =>
                   /\ io[2].name = "snap_destroy"
                   /\ io[2].how = FileName(last.given.opened_path)
            /\ last.result = IF io[Len(io)].ret = "OK" THEN "Ok" ELSE "Io"

\* a delete that fell back to v1 and succeeded there
C9_Witness ==
    /\ last.op = "delete"
    /\ Len(last.ioctls) = 2
    /\ last.result = "Ok"

\* C10: a delete that fails hands back the Subvolume it was given, unchanged;
\* without a parent descriptor it fails with CannotDeleteRoot and issues no
\* ioctl; only a delete that succeeds consumes the Subvolume.
C10_FailedDeleteReturnsHandle ==
    last.op = "delete" =>
        /\ last.given # NoHandle
        /\ last.result # "Ok" =>
               /\ last.returned = last.given
               /\ handles[last.slot] = last.given
        /\ last.result = "Ok" =>
               /\ last.returned = NoHandle
               /\ handles[last.slot] = NoHandle
        /\ last.given.parent = NoPath <=> last.result = "CannotDeleteRoot"
        /\ last.result = "CannotDeleteRoot" => last.ioctls = <<>>

\* a delete the kernel refused, the Subvolume still held
C10_Witness ==
    /\ last.op = "delete"
    /\ last.result = "Io"
    /\ handles[last.slot] = last.given

----------------------------------------------------------------------------
(* Properties of the pre-exec driver *)

\* the driver made its snapshot: it ran with ephemeral = Btrfs and the
\* snapshot ioctl succeeded
Snapshotted(d) == made[d] # {}

\* the removal the driver is given to succeed in: none was needed, or a step
\* of the cleanup removed the snapshot
CleanupSucceeded(d) == cleanup[d] = <<>> \/ Removed(cleanup[d])

\* C1: after a run with ephemeral = Btrfs in which the supervisor was spawned
\* and ran to exit, with any exit status, and the driver got that status from
\* wait(), the exited driver leaves no `.<layer-name>.ephemeral.<pid>` entry
\* in the layer's parent, given that the btrfs delete or the recursive
\* removal succeeded; the entry it made carries its own pid.
C1_SnapshotGoneAfterRun ==
    \A d \in Pids :
        /\ \A m \in made[d] : m \in {SnapPath(Canonicalize(l), d) : l \in Layers}
        /\ pc[d] = "exited" /\ Snapshotted(d) /\ status[d] # NoStatus
               /\ CleanupSucceeded(d)
               => made[d] \cap disk = {}

C1_Witness ==
    /\ pc[41] = "exited" /\ Snapshotted(41)
    /\ status[41] = Exited(42)
    /\ cleanup[41] = <<Step("open", TRUE), Step("delete", FALSE),
                       Step("remove_dir_all", TRUE)>>
    /\ made[41] \cap disk = {}

\* C2: on every path by which do_main returns or exits after the snapshot
\* was created, errors of current_exe, of the serialization, of spawn and of
\* wait included, the snapshot is gone when the driver process has ended
\* (unless the removal itself failed).
C2_NoSnapshotOutlivesDriver ==
    \A d \in Pids :
        pc[d] = "exited" /\ Snapshotted(d) /\ CleanupSucceeded(d)
            => made[d] \cap disk = {}

\* C3: with ephemeral = Btrfs the supervisor is given the snapshot path as
\* the layer and ephemeral = None, and no file the isolated program writes
\* lies under an original layer path.
C3_SupervisorGetsSnapshot ==
    \A d \in Pids :
        Snapshotted(d) =>
            /\ pid1_args[d].spawned =>
                   /\ pid1_args[d].layer \in made[d]
                   /\ pid1_args[d].layer \notin Layers
                   /\ pid1_args[d].ephemeral = "None"
                   /\ pid1_args[d].snapshot_dir = pid1_args[d].layer
            /\ \A w \in written : w[1] \notin Layers

C3_Witness ==
    /\ pc[41] = "exited" /\ Snapshotted(41)
    /\ \E w \in written : w[1] = pid1_args[41].layer /\ w[1] \in made[41]

\* C4: the driver returns success iff the supervisor exited 0, exits with
\* code c when the supervisor exited with c # 0 and fails with a non-zero
\* status when a signal killed the supervisor, whatever the cleanup did.
C4_ExitMirrorsSupervisor ==
    \A d \in Pids :
        pc[d] = "exited" =>
            /\ exit[d].code = 0 <=> status[d] = Exited(0)
            /\ exit[d].how = "return_ok" <=> status[d] = Exited(0)
            /\ status[d].kind = "exited" /\ status[d].code # 0 =>
                   exit[d] = Ended("exit", status[d].code, "-")
            /\ status[d].kind = "signaled" =>
                   exit[d].how = "err" /\ exit[d].code # 0

C4_Witness ==
    /\ pc[41] = "exited"
    /\ status[41] = Exited(42) /\ exit[41].code = 42
    /\ cleanup[41] = <<Step("open", TRUE), Step("delete", FALSE),
                       Step("remove_dir_all", FALSE)>>
    /\ made[41] \cap disk # {}

----------------------------------------------------------------------------
(* Properties of the mount tree *)

\* C5: once the mount tree is built, for every inputs or platform entry each
\* path under the entry's destination, the paths on bind mounts nested
\* inside the source included, resolves to a read-only mount, and a write
\* attempted there from inside the container fails with read-only
\* filesystem.
C5_InputsReadonlyRecursively ==
    mphase = "pivoted" =>
        \A e \in ReadonlyEntries :
            /\ \A p \in MntPaths : IsPrefix(<<e>>, p) => mnt[Covering(mnt, p)].ro
            /\ IsPrefix(<<e>>, mwrite.path) => mwrite.result = "ReadOnlyFilesystem"

C5_Witness ==
    /\ mwrite.path = <<"inputs", "sub", "sub">>
    /\ mwrite.result = "ReadOnlyFilesystem"
    /\ mnt[<<"inputs", "sub", "sub">>].present
    /\ ~mnt[<<>>].ro

----------------------------------------------------------------------------
(* Properties of the send-stream decoder *)

IsCmdFrame(f) == f.k = "cmd"
\* the command frames of the input, in wire order
SentCmds == SelectSeq(sent, IsCmdFrame)
\* the frame the decoder stands before
NextFrame == sent[Len(items) + 1]
\* ... and that frame lies whole in the input
NextFrameWhole ==
    /\ Len(items) < Len(sent)
    /\ consumed + Len(Encode(NextFrame)) <= Len(wire)
Malformed(f) == f.shape \in {"wrongtag", "leftover", "short"}

\* C11: each decode step that returns an item consumes exactly that item's
\* bytes, 13 + 4 for a stream header and 10 + len for a command; the items'
\* footprints are adjacent, start at byte 0 and end where the decoder stands,
\* so together they are the input up to where decoding stopped.
C11_FootprintsTileInput ==
    /\ consumed = IF items = <<>> THEN 0 ELSE items[Len(items)].to
    /\ consumed <= rpos /\ rpos <= Len(wire)
    /\ Len(items) <= Len(sent)
    /\ \A i \in 1 .. Len(items) :
           LET it == items[i]
           IN  /\ it.from = IF i = 1 THEN 0 ELSE items[i - 1].to
               /\ it.to - it.from =
                      IF it.item.kind = "start" THEN 13 + 4
                      ELSE 10 + LeU(SubSeq(wire, it.from + 1, it.from + 4))
               /\ SubSeq(wire, it.from + 1, it.to) = Encode(sent[i])

C11_Witness ==
    /\ ended /\ derr = NoError
    /\ Len(items) = 3 /\ consumed = Len(wire)
    /\ items[2].item.ty = 1 /\ items[3].item.unknown

\* C12: the parser delivers the input's command frames one for one, in wire
\* order, and nothing for the stream headers; of a complete input of
\* well-formed frames it delivers all of them and ends without error.
C12_OneCommandPerFrame ==
    /\ Len(delivered) <= Len(SentCmds)
    /\ \A i \in 1 .. Len(delivered) :
           delivered[i].kind = "cmd" /\ delivered[i].ty = SentCmds[i].ty
    /\ ended /\ src_eof /\ wire = Wire(sent) /\ (\A i \in 1 .. Len(sent) : ~Malformed(sent[i]))
           => derr = NoError /\ Len(delivered) = Len(SentCmds)

C12_Witness ==
    /\ ended /\ derr = NoError
    /\ Len(sent) = 3 /\ sent[3] = HdrFrame(2)
    /\ Len(delivered) = 1 /\ delivered[1].ty = 1

\* C13: once the consumer has abandoned the parse after k commands, k
\* commands stay delivered, no further byte is read from the source and no
\* error arises, whether input remains or the source never ends.
C13_AbandonStopsReading ==
    consumer = "abandoned" =>
        /\ Len(delivered) = at_abandon.n
        /\ rpos = at_abandon.rpos
        /\ derr = NoError
        /\ ~ended

C13_Witness ==
    /\ consumer = "abandoned" /\ at_abandon.n = 1
    /\ rpos < Len(wire) /\ ~src_eof

\* type codes without a parser, and bodies they may come with
UnparsedCodes == {0, 23, 24, 26, 27, 99, 65535}
OpaqueBodies == {<<>>, <<1, 2>>, Garbage, Tlv(15, <<100>>)}

\* C14: a frame whose type code has no parser decodes into the Unknown
\* variant with that code, whatever its body, which is consumed; decoding
\* goes on with the next frame and neither panics nor fails on it.
C14_UnknownTypesPassThrough ==
    /\ rpos = 0 =>
           \A t \in UnparsedCodes, body \in OpaqueBodies, v \in {1, 2} :
               LET r == CommandParse(Encode(CmdFrame(t, body, "opaque")), v)
               IN  r.r = "ok" /\ r.used = 10 + Len(body) /\ r.val = Cmd(t, TRUE)
    /\ \A i \in 1 .. Len(items) :
           items[i].item.kind = "cmd" =>
               /\ items[i].item.unknown <=> items[i].item.ty \notin ParsedSubtypes
               /\ items[i].item.ty = LeU(SubSeq(wire, items[i].from + 5, items[i].from + 6))
    /\ derr \in {Unparsable, Panic} /\ Len(items) < Len(sent) =>
           NextFrame.k = "hdr" \/ NextFrame.ty \in ParsedSubtypes

C14_Witness ==
    /\ Len(delivered) = 2
    /\ delivered[1].unknown /\ delivered[1].ty = 23
    /\ ~delivered[2].unknown

\* C15: a frame of a known type whose body does not match the type's
\* attribute layout, by a wrong tag or by bytes after the attributes, ends
\* the stream with Unparsable: never with a panic, never as need-more-bytes.
C15_MalformedIsUnparsable ==
    /\ derr # Panic
    /\ readable /\ NextFrameWhole /\ Malformed(NextFrame)
           /\ consumed + Len(Encode(NextFrame)) <= rpos
           => DecodeResult(DecodeNom(dstate, Buffer)) = "unparsable"

\* C16: when a complete input has bytes after the terminal End that form
\* no further sendstream, decoding fails with TrailingData(n), n the number
\* of those bytes.
C16_TrailingDataReported ==
    /\ ended /\ src_eof
    /\ Len(items) = Len(sent) /\ sent[Len(sent)] = CmdFrame(21, <<>>, "good")
    /\ consumed < Len(wire)
    => derr = TrailingData(Len(wire) - consumed)

FirstOfStream(i) == i > 1 /\ items[i - 1].item.kind = "start"
LastOfStream(i) ==
    items[i].item.kind = "cmd" /\ (i = Len(items) \/ items[i + 1].item.kind = "start")

\* C17: in every sequence delivered without error the first command after
\* each stream header is Subvol or Snapshot and the last command of each
\* sendstream is End.
C17_StreamsStartAndEnd ==
    ended /\ derr = NoError =>
        \A i \in 1 .. Len(items) :
            /\ FirstOfStream(i) /\ items[i].item.kind = "cmd" => items[i].item.ty \in {1, 2}
            /\ LastOfStream(i) => items[i].item.ty = 21

----------------------------------------------------------------------------
(* Properties of the OCI layer synthesizer *)

\* the entries of the archive that bear a path (extended headers bear none)
EntriesFor(p) ==
    {i \in DOMAIN tar : tar[i].path = p /\ tar[i].entry_type # "XHeader"}

OciOver == oci_pc \in {"ok", "err"}

\* main turned the stream down as malformed, or could not read the child
StreamRefused ==
    oci_pc = "err" /\ oci_err.kind \in {"Stream", "AlreadyClosed", "NeverOpened",
                                        "NotAllClosed", "Io"}

\* the loop over pending_whiteouts has run to its end
WhiteoutsDone ==
    \/ oci_pc = "whiteouts" /\ wh_todo = {}
    \/ oci_pc = "ok"
    \/ oci_pc = "err" /\ oci_err.kind = "NotAllClosed"

\* C18: once main is over, not having turned the stream down, a path that
\* was removed and then seen alive again (created, linked, given contents,
\* attributes, a mode, an owner or a new name), and not removed since, has no
\* whiteout `.wh.<basename>` beside it and exactly one entry of its own.
C18_RecreatedHasOneEntry ==
    (OciOver /\ ~StreamRefused) =>
        \A p \in ChangedPaths :
            hist[p].removed = "revived" =>
                /\ EntriesFor(WhFullPath(p)) = {}
                /\ Cardinality(EntriesFor(p)) = 1

\* C19: once the loop over pending_whiteouts is over, every path still in
\* pending_whiteouts with no proper ancestor in it has exactly one entry
\* `.wh.<basename>` in its parent directory, a Regular one of zero bytes and
\* mode 0o644; a path with a proper ancestor in pending_whiteouts has none;
\* and no whiteout in the archive is for a path beneath the path of another.
C19_WhiteoutsForTopmostRemoved ==
    WhiteoutsDone =>
        /\ \A p \in pending_whiteouts :
              IF \E q \in ProperAncestors(p) : q \in pending_whiteouts
                  THEN EntriesFor(WhFullPath(p)) = {}
                  ELSE \E i \in DOMAIN tar :
                          /\ EntriesFor(WhFullPath(p)) = {i}
                          /\ tar[i].entry_type = "Regular"
                          /\ tar[i].size = 0
                          /\ tar[i].mode = 420
        /\ \A p, q \in ChangedPaths :
              (EntriesFor(WhFullPath(p)) # {} /\ EntriesFor(WhFullPath(q)) # {})
                  => q \notin ProperAncestors(p)

\* a directory and something beneath it were both removed, and the loop is
\* over
C19_Witness ==
    /\ oci_pc = "ok"
    /\ \E p, q \in pending_whiteouts :
          /\ q \in ProperAncestors(p)
          /\ EntriesFor(WhFullPath(q)) # {}
          /\ EntriesFor(WhFullPath(p)) = {}

\* C20 as stated: a path for which the stream held SetTimes and Close only
\* has no entry in the archive and is the cause of no error.
C20_TimesOnlyPathHasNoEntry ==
    \A p \in OciPaths :
        hist[p].ops = "times" =>
            /\ EntriesFor(p) = {}
            /\ oci_err.path # p

\* C20: a path for which the stream held SetTimes and Close only (SetTimes
\* first) is the cause of no error and gets no entry from its Close: the
\* archive has an entry for it only when it is a directory of the child
\* layer above a path that was written, and then the one Directory entry of
\* the pass over the parents. A stream holding SetTimes and Close only, that
\* did not itself fail, leaves the archive without entries and ends well.
C20_TimesOnlyPathOnlyRestituted ==
    /\ \A p \in OciPaths :
          hist[p].ops = "times" =>
              /\ oci_err.path # p
              /\ p \notin written_to_tar
              /\ EntriesFor(p) # {} =>
                    /\ oci_pc # "stream"
                    /\ child[p] = "dir"
                    /\ \E w \in written_to_tar : p \in ProperAncestors(w)
                    /\ \E i \in DOMAIN tar : /\ EntriesFor(p) = {i}
                                             /\ tar[i].entry_type = "Directory"
    /\ (\A p \in OciPaths : hist[p].ops \in {"none", "times"}) =>
          /\ tar = <<>>
          /\ oci_pc = "err" => oci_err.kind = "Stream"

\* a path had its times set and was closed, nothing else, and main ended well
C20_Witness ==
    /\ oci_pc = "ok"
    /\ \E p \in OciPaths :
          /\ hist[p].ops = "times"
          /\ p \in finished_paths
          /\ EntriesFor(p) = {}

\* the entries the pass over the parents put in: a path has one, and no
\* Close wrote it
Restituted(q) == q \notin written_to_tar /\ EntriesFor(q) # {}

\* C21: in every archive main completes, each proper ancestor, short of the
\* root, of a path written by a Close has an entry of its own or is not in
\* the child layer; and an entry that a Close did not write is a Directory
\* entry of zero bytes with the mode, uid and gid the directory has in the
\* child layer.
C21_AncestorsPresentOrAbsent ==
    oci_pc \in {"whiteouts", "ok"} =>
        /\ \A w \in written_to_tar : \A q \in ProperAncestors(w) \ {OciRoot} :
              EntriesFor(q) # {} \/ child[q] = "absent"
        /\ \A q \in OciPaths \ written_to_tar : \A i \in EntriesFor(q) :
              /\ tar[i].entry_type = "Directory"
              /\ tar[i].size = 0
              /\ tar[i].data = "empty"
              /\ tar[i].mode = FsDir.mode
              /\ tar[i].uid = FsDir.uid
              /\ tar[i].gid = FsDir.gid

\* a path was written beneath a directory of the child layer that no Close
\* wrote, and main ended well
C21_Witness ==
    /\ oci_pc = "ok"
    /\ \E w \in written_to_tar : \E q \in ProperAncestors(w) : Restituted(q)

\* C22: the Directory entry restituted for an ancestor of a written path
\* comes in the archive before the entry of that path.
C22_ParentsBeforeWritten ==
    oci_pc = "ok" =>
        \A w \in written_to_tar : \A q \in ProperAncestors(w) \ {OciRoot} :
            Restituted(q) =>
                \A i \in EntriesFor(q), j \in EntriesFor(w) : i < j

\* C23: every header of an entry (the one a Close emits, a restituted
\* parent directory, a whiteout) has mtime 1075852800 and a size that was
\* set: the file's length when the entry is streamed from a file, else 0.
C23_FixedMtimeAndSize ==
    \A i \in DOMAIN tar :
        tar[i].data # "pax" =>
            /\ tar[i].mtime = 1075852800
            /\ tar[i].size = IF tar[i].data = "file" THEN FsFile.len ELSE 0
            /\ tar[i].data = "file" => tar[i].entry_type = "Regular"

\* a path that had SetTimes was written from a file, and a parent directory
\* was restituted above it
C23_Witness ==
    /\ oci_pc = "ok"
    /\ \E w \in written_to_tar \cap had_set_times :
          /\ \E i \in EntriesFor(w) : tar[i].data = "file"
          /\ \E q \in ProperAncestors(w) : Restituted(q)

\* C24: the keys of the records of every extended header are strictly
\* increasing.
C24_PaxKeysStrictlyIncreasing ==
    \A i \in DOMAIN tar : \A j, k \in DOMAIN tar[i].pax :
        j < k => KeyRank(tar[i].pax[j]) < KeyRank(tar[i].pax[k])

\* the accumulator of a written path said its content is a file: a
\* Contents handle, or no contents and a regular file in the child layer
FromFile(p) ==
    \/ hist[p].acc.contents = "File"
    \/ hist[p].acc.contents = "Unset" /\ child[p] = "file"

\* C25: an entry whose content is streamed from a file is a Regular entry
\* with the file's length as size and the file's mode & 0o7777 as mode,
\* whatever type and mode the changes had recorded for the path; no entry
\* has a type other than the seven of the layer format and the extended
\* header.
C25_StreamedIsRegularFromDisk ==
    /\ \A p \in written_to_tar :
          FromFile(p) =>
              \E i \in DOMAIN tar :
                  /\ EntriesFor(p) = {i}
                  /\ tar[i].data = "file"
                  /\ tar[i].entry_type = "Regular"
                  /\ tar[i].size = FsFile.len
                  /\ tar[i].mode = 384
    /\ \A i \in DOMAIN tar :
          tar[i].entry_type \in {"Regular", "Directory", "Symlink", "Link",
                                 "Fifo", "Char", "Block", "XHeader"}

\* a path for which the changes had recorded another type and another mode
\* was written from a file
C25_Witness ==
    \E p \in written_to_tar :
        /\ FromFile(p)
        /\ hist[p].acc.entry_type # "Regular"
        /\ hist[p].acc.mode # 384

\* C26: a SetXattr with a name that is no UTF-8 ends main with an error,
\* which names the attribute when the path was still open; and no record of
\* an extended header, and no accumulator, has a key made from such a name.
C26_NonUtf8XattrStops ==
    /\ \A p \in OciPaths :
          /\ hist[p].badx # "no" => oci_pc = "err"
          /\ hist[p].badx = "open" =>
                /\ oci_err.kind = "XattrNotUtf8"
                /\ oci_err.path = p
                /\ oci_err.name = NotUtf8Name
          /\ \A k \in DOMAIN entries[p].extensions :
                entries[p].extensions[k] # "SCHILY.xattr.user.<ff>"
    /\ \A i \in DOMAIN tar : \A k \in DOMAIN tar[i].pax :
          tar[i].pax[k] # "SCHILY.xattr.user.<ff>"

\* such a SetXattr came for a path that already had an attribute set
C26_Witness ==
    \E p \in OciPaths :
        /\ hist[p].badx = "open"
        /\ entries[p].extensions # <<>>

----------------------------------------------------------------------------
(* Properties of the pre-exec driver: the order of its steps *)

\* the supervisor was spawned and has not ended: the isolated program may run
SupervisorRuns(d) == pid1_args[d].spawned /\ pid1_status[d] = NoStatus

\* the steps of one kind among the steps the cleanup tried
StepsOf(steps, name) == {i \in 1 .. Len(steps) : steps[i].step = name}

\* C27: the snapshot the supervisor is given was created before the
\* supervisor was spawned; while the supervisor runs the snapshot exists and
\* the driver has tried no removal; the driver tries a removal only once
\* wait() has returned the supervisor's status.
C27_CleanupNeverOverlapsSupervisor ==
    \A d \in Pids :
        /\ pid1_args[d].spawned /\ pid1_args[d].snapshot_dir # NoDir =>
               pid1_args[d].snapshot_dir \in made[d]
        /\ SupervisorRuns(d) /\ snapshot_dir[d] # NoDir => snapshot_dir[d] \in disk
        /\ SupervisorRuns(d) => cleanup[d] = <<>> /\ pc[d] = "spawned"
        /\ pc[d] = "cleanup" \/ cleanup[d] # <<>> =>
               status[d] # NoStatus /\ status[d] = pid1_status[d]

C27_Witness ==
    /\ SupervisorRuns(41)
    /\ snapshot_dir[41] \in made[41] \cap disk
    /\ \E w \in written : w[1] = snapshot_dir[41]
    /\ cleanup[41] = <<>>

\* C28: once the supervisor has exited the cleanup tries nothing when the
\* snapshot path no longer exists; otherwise it opens the snapshot and tries
\* the btrfs delete through the handle first; it tries the recursive removal
\* exactly when the open or the btrfs delete failed, never after a btrfs
\* delete that succeeded; when both removals fail the driver goes on to
\* report the supervisor's status.
C28_DeleteThenFallback ==
    [][\A d \in Pids :
           pc[d] = "cleanup" /\ pc'[d] # "cleanup" =>
               LET steps == cleanup'[d]
                   exists == snapshot_dir[d] # NoDir /\ snapshot_dir[d] \in disk
                   opens == StepsOf(steps, "open")
                   deletes == StepsOf(steps, "delete")
                   removals == StepsOf(steps, "remove_dir_all")
               IN  /\ pid1_status[d] # NoStatus
                   /\ ~exists => steps = <<>>
                   /\ exists => opens = {1}
                   /\ deletes = IF exists /\ steps[1].ok THEN {2} ELSE {}
                   /\ removals # {} <=>
                          exists /\ (~steps[1].ok \/ ~steps[2].ok)
                   /\ \A i \in removals : i = Len(steps) /\ ~steps[i - 1].ok
                   /\ Len(steps) = Cardinality(opens \cup deletes \cup removals)
                   /\ pc'[d] = "finish" /\ exit'[d] = exit[d]
                   /\ disk' \in {disk, disk \ {snapshot_dir[d]}}
                   /\ disk' # disk <=> Removed(steps)]_vars

C28_Witness ==
    /\ pc[41] = "finish"
    /\ cleanup[41] = <<Step("open", TRUE), Step("delete", FALSE),
                       Step("remove_dir_all", FALSE)>>
    /\ snapshot_dir[41] \in disk
    /\ exit[41] = Running

----------------------------------------------------------------------------
(* Properties of set_readonly *)

\* C29: set_readonly(b) fetches the flags first and issues the set-flags
\* ioctl iff the READ_ONLY bit of the fetched word differs from b; the word
\* it writes is the fetched word with that one bit turned; a set_readonly(b)
\* that follows a set_readonly(b) that returned Ok on the same subvolume
\* issues no set-flags ioctl; the subvolume's other flag bits stay as they
\* were.
C29_SetFlagsOnlyToTurnTheBit ==
    [][last'.op = "set_readonly" =>
           LET io == last'.ioctls
               v == last'.given.fd.n
               b == last'.ro
               fetched == io[1].val
               turned == IF b THEN fetched + READ_ONLY ELSE fetched - READ_ONLY
           IN  /\ Len(io) \in {1, 2}
               /\ io[1].name = "get_flags"
               /\ fetched = vol_flags[v]
               /\ SetsIssued(io) = 1 <=>
                      io[1].ret = "OK" /\ HasBit(fetched, READ_ONLY) # b
               /\ Len(io) = 2 =>
                      /\ io[2].name = "set_flags"
                      /\ io[2].val = turned
                      /\ HasBit(io[2].val, READ_ONLY) = b
               /\ vol_flags'[v] \in {vol_flags[v], turned}
               /\ vol_flags'[v] = turned <=> SetsDone(io) # {}
               /\ \A w \in VolNums \ {v} : vol_flags'[w] = vol_flags[w]
               /\ last.op = "set_readonly" /\ last.result = "Ok" /\ last.ro = b
                      /\ last.given.fd.n = v
                      => SetsIssued(io) = 0]_vars

\* set_readonly(true) has written a word that carries another bit beside
\* READ_ONLY
C29_Witness ==
    /\ last.op = "set_readonly" /\ last.ro /\ last.result = "Ok"
    /\ Len(last.ioctls) = 2
    /\ last.ioctls[1].val = 1
    /\ last.ioctls[2].val = 1 + READ_ONLY
    /\ vol_flags[last.given.fd.n] = 1 + READ_ONLY

----------------------------------------------------------------------------
(* Properties of the send-stream decoder: complete frames *)

\* the buffer begins with a whole item: a stream header, or a command
\* header with the body it announces
HoldsCompleteItem(b) ==
    \/ Len(b) >= 17 /\ SubSeq(b, 1, 13) = MAGIC_HEADER
    \/ Len(b) >= 10 /\ Len(b) >= 10 + LeU(SubSeq(b, 1, 4))

\* C30: whenever the buffer holds a complete item, a 17-byte stream header
\* or a 10-byte command header with the len body bytes it announces, decode
\* does not answer need-more-bytes.
C30_CompleteFrameNeverNeedsMore ==
    readable /\ ~ended /\ HoldsCompleteItem(Buffer)
        => DecodeResult(DecodeNom(dstate, Buffer)) # "none"

\* a version 2 Write lies whole in the buffer, with a command after it, and
\* decode has been given it
StalledOnShortWrite ==
    /\ dstate = Parsing(2)
    /\ Len(items) < Len(sent) /\ NextFrame = CmdFrame(WRITE, WriteHead, "short")
    /\ rpos = Len(wire) /\ HoldsCompleteItem(Buffer)
    /\ DecodeResult(DecodeNom(dstate, Buffer)) = "none"
    /\ ~readable /\ ~ended /\ ~src_eof

----------------------------------------------------------------------------
(* Properties of the send-stream decoder: short input, versions, the start *)

\* the buffer holds less than one item and nothing that rules an item out:
\* before the first header its bytes agree with the magic
LessThanOneItem(state, b) ==
    /\ ~HoldsCompleteItem(b)
    /\ state.st = "Empty" =>
           \A i \in 1 .. Min(Len(b), Len(MAGIC_HEADER)) : b[i] = MAGIC_HEADER[i]

\* FramedRead calls decode in this step
Decoding == readable /\ ~ended /\ consumer = "active" /\ consumer' = "active"

\* C31: on a buffer that holds less than one complete item decode answers
\* need-more-bytes; with that answer no byte is consumed, the decoder state
\* stays and no item is yielded or delivered; the consumer is given no
\* Incomplete error; and when the source has ended with bytes of an unfinished
\* frame in the buffer the parse ends with an error.
C31_ShortInputNeedsMore ==
    [][Decoding =>
           LET res == DecodeResult(DecodeNom(dstate, Buffer))
           IN  /\ LessThanOneItem(dstate, Buffer) => res = "none"
               /\ res = "none" =>
                      /\ consumed' = consumed /\ dstate' = dstate
                      /\ items' = items /\ delivered' = delivered
                      /\ derr'.kind \in {"none", "IO"}
                      /\ ended' <=> at_eof
                      /\ ended' => (derr' = NoError <=> Buffer = <<>>)
               /\ derr'.kind # "Incomplete"]_vars

\* the source ended in the middle of a frame: the parse has ended with the
\* error of the bytes that remain
C31_Witness ==
    /\ ended /\ at_eof /\ derr = IoBytesRemaining
    /\ Len(wire) < Len(Wire(sent)) /\ consumed < rpos
    /\ Len(items) = 2 /\ dstate = Parsing(1)

\* the version announced by the last stream header among the first n frames
\* of the input (0: none)
RECURSIVE VersionAfter(_)
VersionAfter(n) ==
    IF n = 0 THEN 0
    ELSE IF sent[n].k = "hdr" THEN sent[n].ty
    ELSE VersionAfter(n - 1)

\* C32: each command is decoded under the version of the most recent stream
\* header before it in the byte stream, a later header replacing the version
\* in force; under version >= 2 the data of a Write is all the body bytes
\* after the data tag and a Utimes has an otime iff an attribute follows
\* its ctime; under version 1 the data of a Write is the value of a
\* length-prefixed attribute and a Utimes carries atime, mtime and ctime
\* and nothing else.
C32_DecodedUnderLatestHeader ==
    /\ dstate.st = "Parsing" => dstate.version = VersionAfter(Len(items))
    /\ \A i \in 1 .. Len(items) :
           LET it == items[i].item
               body == sent[i].body
               v == VersionAfter(i - 1)
               data == Drop_(body, Len(WriteHead))
           IN  /\ it.kind = "start" => it.ty = VersionAfter(i)
               /\ it.kind = "cmd" /\ it.ty = WRITE =>
                      IF v >= 2
                          THEN /\ SubSeq(data, 1, 2) = LE(ATTR_DATA, 2)
                               /\ it.payload = Drop_(data, 2)
                          ELSE /\ data = Tlv(ATTR_DATA, it.payload)
               /\ it.kind = "cmd" /\ it.ty = UTIMES =>
                      IF v >= 2
                          THEN it.payload = <<"otime">> <=> body # UtimesBody
                          ELSE it.payload = <<"no otime">> /\ body = UtimesBody

\* a Write decoded under version 2 after a header that replaced version 1:
\* its data are the bytes after the tag, a length prefix included
C32_Witness ==
    /\ Len(items) = 3
    /\ items[1].item = Start(1) /\ items[2].item = Start(2)
    /\ items[3].item.ty = WRITE /\ items[3].item.payload = <<1, 0, 7>>
    /\ dstate = Parsing(2)

\* the input begins with the 13-byte magic and a 4-byte version
BeginsWithHeader(w) == Len(w) >= 17 /\ SubSeq(w, 1, 13) = MAGIC_HEADER

\* the decoder leaves Empty only by decoding a stream header at the start of
\* the input, yields nothing before that, and never returns to Empty
LeavesEmptyByHeaderOnly ==
    [][/\ dstate.st = "Parsing" => dstate'.st = "Parsing"
       /\ dstate'.st = "Empty" => items' = <<>> /\ delivered' = <<>>
       /\ dstate.st = "Empty" /\ dstate'.st = "Parsing" =>
              /\ BeginsWithHeader(wire) /\ consumed = 0 /\ consumed' = 17
              /\ items' = <<[item |-> Start(LeU(SubSeq(wire, 14, 17))),
                             from |-> 0, to |-> 17]>>
              /\ dstate' = Parsing(LeU(SubSeq(wire, 14, 17)))]_vars

\* C33: the decoder is in Empty until it has decoded a stream header, no
\* command is emitted before that, and a parse that has ended on an input
\* that does not begin with the 13-byte magic and a 4-byte version has
\* ended with Unparsable.
C33_NoHeaderIsUnparsable ==
    /\ dstate.st = "Empty" => items = <<>> /\ delivered = <<>>
    /\ ended /\ ~BeginsWithHeader(wire) => derr = Unparsable

\* an empty input has been parsed to its end without an error
EmptyInputAccepted ==
    /\ wire = <<>> /\ ended /\ derr = NoError /\ dstate = Empty /\ delivered = <<>>

\* an input whose first bytes are not the magic has been rejected
GarbageRejected ==
    /\ ended /\ derr = Unparsable /\ dstate = Empty /\ wire # <<>>

----------------------------------------------------------------------------
(* Properties of the OCI layer synthesizer: order, closing, whiteouts *)

\* the pass that put an archive member in: 1 the Close arm (the extended
\* header it sends ahead included), 2 the pass over the parents, 3 the loop
\* over the whiteouts
GroupOf(m, by_close) ==
    IF m.entry_type = "XHeader" THEN 1
    ELSE IF file_name(m.path) \in WhNames THEN 3
    ELSE IF m.path \in by_close THEN 1
    ELSE 2

Group(m) == GroupOf(m, written_to_tar)

GroupsInOrder ==
    \A i, j \in DOMAIN tar :
        i < j =>
            /\ Group(tar[i]) <= Group(tar[j])
            /\ Group(tar[i]) = 2 /\ Group(tar[j]) = 2 =>
                   /\ Len(tar[i].path) <= Len(tar[j].path)
                   /\ tar[j].path \notin ProperAncestors(tar[i].path)

\* the members a step appends
Appends == SubSeq(tar', Len(tar) + 1, Len(tar'))

Opened(p) == hist[p].ops = "other" /\ hist[p].removed # "removed"

\* C35: main ends well only with an empty accumulator, every path that was
\* given an entry having been closed since: an entry comes to the
\* accumulator only for a path not yet closed, leaves it only by the Close of
\* its path, a closed path has none, and with an entry left when the stream
\* and the whiteouts are over main fails with 'not all entries were closed',
\* which it does for no other reason.
C35_SuccessOnlyWhenAllClosed ==
    [][/\ \A p \in OciPaths :
             /\ (entries[p] = NoEntry /\ entries'[p] # NoEntry)
                    => p \notin finished_paths
             /\ (entries[p] # NoEntry /\ entries'[p] = NoEntry)
                    => (p \in finished_paths' /\ nchanges' = nchanges + 1)
             /\ p \in finished_paths' => entries'[p] = NoEntry
             /\ (oci_pc' = "ok" /\ Opened(p)') => p \in finished_paths'
       /\ oci_pc' = "ok" => is_empty(entries')
       /\ (oci_pc = "whiteouts" /\ wh_todo = {} /\ ~is_empty(entries))
              => (oci_pc' = "err" /\ oci_err'.kind = "NotAllClosed")
       /\ oci_err'.kind = "NotAllClosed" => ~is_empty(entries')]_vars

\* one path was opened and closed, another opened and left open, and main
\* failed at its end
C35_Witness ==
    /\ oci_pc = "err"
    /\ oci_err.kind = "NotAllClosed"
    /\ \E p, q \in ChangedPaths :
          /\ entries[p] # NoEntry
          /\ q \in written_to_tar
          /\ entries[q] = NoEntry


\* the last Close of p found no entry for it in the accumulator, and no
\* SetTimes had come for it
ClosedWithNothing(p, closed, times, h) ==
    p \in closed /\ h[p].acc = NoEntry /\ p \notin times

\* C36: the Close of a path that has no entry in the accumulator and for
\* which no SetTimes was recorded ends main with 'was closed but never
\* opened' for that path: main goes no further, and the step puts nothing in
\* the archive.
C36_CloseOfUnopenedIsFatal ==
    [][/\ \A p \in OciPaths :
             ClosedWithNothing(p, finished_paths', had_set_times', hist')
                 => /\ oci_pc' = "err"
                    /\ oci_err' = OciError("NeverOpened", p)
       /\ (oci_err.kind # "NeverOpened" /\ oci_err'.kind = "NeverOpened")
              => /\ tar' = tar
                 /\ written_to_tar' = written_to_tar
                 /\ entries[oci_err'.path] = NoEntry
                 /\ oci_err'.path \notin had_set_times]_vars

\* a path was removed, nothing else, and then closed
C36_Witness ==
    \E p \in ChangedPaths :
        /\ oci_err = OciError("NeverOpened", p)
        /\ hist[p].removed = "removed"
        /\ p \in pending_whiteouts
        /\ EntriesFor(p) = {}

\* a path the stream never named before was closed
ClosedUnmentioned ==
    \E p \in OciPaths :
        oci_err = OciError("NeverOpened", p) /\ hist[p].ops = "close"


\* every path an entry of the archive can bear
TarPaths == ChangedPaths \cup {WhFullPath(p) : p \in ChangedPaths}

\* the step is an operation on p that makes or changes it: p was last seen
\* removed and is now alive again, or had seen SetTimes and Close at most and
\* now has seen more without being removed
AliveStep(p, h, g) ==
    \/ h[p].removed = "removed" /\ g[p].removed = "revived"
    \/ h[p].ops # "other" /\ g[p].ops = "other" /\ g[p].removed = "no"

RestitutedOnce ==
    /\ oci_pc = "ok"
    /\ \E w \in written_to_tar : \E q \in ProperAncestors(w) :
          q \notin written_to_tar /\ Cardinality(EntriesFor(q)) = 1


\* the last Unlink or Rmdir of p was followed by nothing that makes or
\* changes p, and the same holds of none of its proper ancestors
DeletedForGood(p) ==
    /\ hist[p].removed = "removed"
    /\ \A q \in ProperAncestors(p) \ {OciRoot} : hist[q].removed # "removed"

\* C38: in every archive main completes, a path whose last Unlink or Rmdir
\* was followed by no operation that makes or changes it, none of its proper
\* ancestors being removed so, has a whiteout `.wh.<basename>` in its parent
\* directory, whatever SetTimes and Close came for it after the removal.
C38_NoDeletionDropped ==
    oci_pc = "ok" =>
        \A p \in ChangedPaths :
            DeletedForGood(p) => EntriesFor(WhFullPath(p)) # {}

\* a path was given an entry, removed and then closed: its Close took it out
\* of pending_whiteouts and wrote the entry
DeletionDropped ==
    /\ oci_pc = "ok"
    /\ \E p \in written_to_tar :
          /\ DeletedForGood(p)
          /\ p \notin pending_whiteouts
          /\ EntriesFor(WhFullPath(p)) = {}
          /\ EntriesFor(p) # {}


----------------------------------------------------------------------------
(* Properties of the pre-exec driver: two drivers on one layer *)

\* the driver d takes the step
Acts(d) == pc'[d] # pc[d]

\* the snapshots of the drivers other than d
MadeByOthers(d) == UNION {made[e] : e \in Pids \ {d}}

\* C39: with two drivers at work on the same layer, in whatever order their
\* steps fall, a driver's snapshot is `.<name>.ephemeral.<its own pid>`
\* beside the layer and is no other driver's; a supervisor is spawned with
\* the snapshot its own driver made, as its layer and as its snapshot
\* directory, and with no snapshot of another driver; and a step of a driver
\* makes no directory but its own snapshot and removes none but a snapshot it
\* made, the snapshots of the other driver staying as they are.
C39_DriversKeepApart ==
    [][/\ \A d \in Pids :
             /\ snapshot_dir'[d] # NoDir
                    => /\ snapshot_dir'[d] = SnapPath(Img, d)
                       /\ snapshot_dir'[d] \in made'[d]
                       /\ \A e \in Pids \ {d} :
                              /\ snapshot_dir'[e] # snapshot_dir'[d]
                              /\ snapshot_dir'[d] \notin made'[e]
             /\ pid1_args'[d].spawned
                    => /\ pid1_args'[d].snapshot_dir = snapshot_dir'[d]
                       /\ pid1_args'[d].snapshot_dir # NoDir
                              => pid1_args'[d].layer = snapshot_dir'[d]
                       /\ \A e \in Pids \ {d} :
                              /\ pid1_args'[d].layer \notin made'[e]
                              /\ pid1_args'[d].snapshot_dir \notin made'[e]
             /\ Acts(d)
                    => /\ disk \ disk' \subseteq made[d]
                       /\ disk' \ disk \subseteq {SnapPath(Img, d)}
                       /\ MadeByOthers(d) \cap disk \subseteq disk'
                       /\ (pc[d] = "cleanup" /\ disk' # disk)
                              => disk' = disk \ {snapshot_dir[d]}]_vars

\* both drivers made a snapshot of the layer; one has removed its own in
\* its cleanup while the supervisor of the other still runs in the other's
C39_Witness ==
    \E d \in Pids : \E e \in Pids \ {d} :
        /\ pc[d] = "finish"
        /\ Removed(cleanup[d])
        /\ made[d] = {SnapPath(Img, d)}
        /\ SnapPath(Img, d) \notin disk
        /\ pc[e] = "spawned"
        /\ pid1_args[e].snapshot_dir = SnapPath(Img, e)
        /\ pid1_args[e].layer = SnapPath(Img, e)
        /\ SnapPath(Img, e) \in disk

====
